---- MODULE Spec2Model ----
(***************************************************************************)
(* A model of the Kindle log ingestion engine of log_parser.py: the        *)
(* timestamp normalizer, the power state tracker, the per-book event log   *)
(* and its session folding, the per-file parser and the directory          *)
(* orchestrator with its checkpoint.                                       *)
(*                                                                         *)
(* Python values are modelled as follows.  None in a numeric field is the  *)
(* integer None, which is smaller than every timestamp and position, as    *)
(* None is smaller than every number in Python 2 comparisons, min() and    *)
(* sort().  None in a text field is the string NoneStr.  A list is a       *)
(* sequence, a dict a function on the set of its keys.                     *)
(***************************************************************************)
EXTENDS Integers, Sequences, FiniteSets, TLC

VARIABLES
    events,     \* the event list handed to reads
    log,        \* the KindleLog that is being parsed line by line
    prev,       \* log as it was before its latest step
    hist,       \* the lines read so far, each with what the parser made of it
    clock,      \* the clock reading of the latest line with a timestamp
    logs,       \* the KindleLogs object of the running program
    dir,        \* the log directory: the files in it
    ckpt,       \* the content of the state file
    tmpfile,    \* the content of the state file's .tmp sibling
    pc,         \* where main() is, "idle" while no process runs
    todo,       \* ProcessDirectory: the sorted listing that is left to visit
    last_seq,   \* ProcessDirectory: its local last_seq
    run,        \* the run in progress: its number and what it started from
    out         \* what the latest finished run left behind

readsVars == <<events>>

lineVars == <<log, prev, hist, clock>>

mainVars == <<logs, dir, ckpt, tmpfile, pc, todo, last_seq, run, out>>

vars ==
    <<events, log, prev, hist, clock, logs, dir, ckpt, tmpfile, pc, todo, last_seq, run, out>>

(***************************************************************************)
(* Python values                                                           *)
(***************************************************************************)
None == -1000000000

NoneStr == "None"

Truthy(x) == x # None /\ x # 0

Abs(x) == IF x < 0 THEN -x ELSE x

Min(a, b) == IF a <= b THEN a ELSE b

Last(s) == s[Len(s)]

Front(s) == SubSeq(s, 1, Len(s) - 1)

(***************************************************************************)
(* EqualWithFuzz, MatchWithFuzzByHour                                      *)
(***************************************************************************)
DEFAULT_FUZZ == 300

HOUR == 3600

EqualWithFuzz(a, b, fuzz) == a = b \/ Abs(a - b) < fuzz

MatchWithFuzzByHour(ref, value) ==
    IF EqualWithFuzz(ref, value, DEFAULT_FUZZ) THEN ref
    ELSE IF ref > HOUR /\ EqualWithFuzz(ref - HOUR, value, DEFAULT_FUZZ) THEN ref - HOUR
    ELSE IF EqualWithFuzz(ref + HOUR, value, DEFAULT_FUZZ) THEN ref + HOUR
    ELSE None

(***************************************************************************)
(* KindleBook: event kinds, thresholds, the event list                     *)
(* An event is <<timestamp, kind, position>>.                              *)
(***************************************************************************)
PICK_UP == 1

PUT_DOWN == 2

OPEN == 3

CLOSE == 4

MIN_IN_HAND_SECS == 120

MIN_IN_HAND_REVERSE_SECS == 600

\* Lexicographic order of two events, the order of Python's list comparison.
EventLeq(a, b) ==
    \/ a[1] < b[1]
    \/ a[1] = b[1] /\ a[2] < b[2]
    \/ a[1] = b[1] /\ a[2] = b[2] /\ a[3] <= b[3]

RECURSIVE InsertSorted(_, _)
InsertSorted(s, e) ==
    IF s = <<>> THEN <<e>>
    ELSE IF EventLeq(Last(s), e) THEN Append(s, e)
    ELSE Append(InsertSorted(Front(s), e), Last(s))

RECURSIVE SortEvents(_)
SortEvents(s) == IF s = <<>> THEN <<>> ELSE InsertSorted(SortEvents(Front(s)), Last(s))

\* A read is <<pick_up_ts, pick_up_loc, put_down_ts, put_down_loc, cum_reading_time>>.
\* Subtracting from a pick_up_ts of None raises TypeError in Python.
AppendReadRaises(rv, read) ==
    /\ read[5] >= MIN_IN_HAND_SECS
    /\ (read[4] >= read[2] \/ read[5] >= MIN_IN_HAND_REVERSE_SECS)
    /\ rv # <<>>
    /\ Last(rv)[4] # read[2]
    /\ read[1] = None

AppendReadNoReverse(rv, read) ==
    LET last == Last(rv)
        continuing == \/ last[4] = read[2]
                      \/ (read[1] - last[3]) < MIN_IN_HAND_SECS
    IN  IF read[5] < MIN_IN_HAND_SECS THEN rv
        ELSE IF rv = <<>> THEN Append(rv, read)
        ELSE IF continuing /\ read[4] >= read[2]
             THEN [rv EXCEPT ![Len(rv)] =
                      <<last[1], Min(last[2], read[2]), read[3], read[4], last[5] + read[5]>>]
        ELSE Append(rv, read)

\* _AppendRead as it would be if only the position made a continuation.
AppendReadByPosition(rv, read) ==
    LET forwards == read[4] >= read[2]
        last == Last(rv)
        continuing == last[4] = read[2]
    IN  IF read[5] < MIN_IN_HAND_SECS THEN rv
        ELSE IF ~forwards /\ read[5] < MIN_IN_HAND_REVERSE_SECS THEN rv
        ELSE IF rv = <<>> THEN Append(rv, read)
        ELSE IF continuing /\ forwards
             THEN [rv EXCEPT ![Len(rv)] =
                      <<last[1], Min(last[2], read[2]), read[3], read[4], last[5] + read[5]>>]
        ELSE Append(rv, read)

AppendRead(rv, read) ==
    LET forwards == read[4] >= read[2]
        last == Last(rv)
        continuing == \/ last[4] = read[2]
                      \/ (read[1] - last[3]) < MIN_IN_HAND_SECS
    IN  IF read[5] < MIN_IN_HAND_SECS THEN rv
        ELSE IF ~forwards /\ read[5] < MIN_IN_HAND_REVERSE_SECS THEN rv
        ELSE IF rv = <<>> THEN Append(rv, read)
        ELSE IF continuing /\ forwards
             THEN [rv EXCEPT ![Len(rv)] =
                      <<last[1], Min(last[2], read[2]), read[3], read[4], last[5] + read[5]>>]
        ELSE Append(rv, read)

\* The local variables of reads before its loop; raised: an exception left it.
ReadsInit ==
    [rv |-> <<>>, first |-> None, start |-> None, firstpos |-> None,
     latestpos |-> None, read_time |-> 0, last |-> None, raised |-> FALSE]

\* read_time after the 'if last in (PICK_UP, OPEN)' of a CLOSE or PUT_DOWN at ts.
Accrued(acc, ts) ==
    IF acc.last \in {PICK_UP, OPEN} THEN acc.read_time + (ts - acc.start) ELSE acc.read_time

\* latestpos after the 'if data' of a CLOSE or PUT_DOWN.
LatestPos(acc, data) == IF Truthy(data) THEN data ELSE acc.latestpos

ReadsPickUpKeepsTime(acc, ev) ==
    [acc EXCEPT !.start = ev[1], !.first = IF Truthy(acc.first) THEN acc.first ELSE ev[1],
                !.firstpos = IF Truthy(acc.first) THEN acc.firstpos ELSE ev[3],
                !.last = PICK_UP]

ReadsPickUp(acc, ev) ==
    [acc EXCEPT !.start = ev[1], !.first = ev[1], !.firstpos = ev[3],
                !.latestpos = None, !.read_time = 0, !.last = PICK_UP]

ReadsOpen(acc, ev) ==
    LET setpos == ~Truthy(acc.firstpos) /\ Truthy(ev[3])
    IN  [acc EXCEPT !.first = IF ~Truthy(acc.first) THEN acc.start ELSE acc.first,
                    !.firstpos = IF setpos THEN ev[3] ELSE acc.firstpos,
                    !.latestpos = IF setpos THEN ev[3] ELSE acc.latestpos,
                    !.start = ev[1], !.last = OPEN]

\* The CLOSE branch as it would be if every CLOSE added the time since the
\* last open time.
ReadsCloseAlwaysAccrues(acc, ev) ==
    [acc EXCEPT !.read_time = acc.read_time + (ev[1] - acc.start),
                !.latestpos = LatestPos(acc, ev[3]), !.last = CLOSE]

ReadsClose(acc, ev) ==
    [acc EXCEPT !.read_time = Accrued(acc, ev[1]), !.latestpos = LatestPos(acc, ev[3]),
                !.last = CLOSE]

\* The tuple a PUT_DOWN hands to _AppendRead.
PutDownCandidate(acc, ev) ==
    <<acc.first, acc.firstpos, ev[1], LatestPos(acc, ev[3]), Accrued(acc, ev[1])>>

ReadsPutDown(acc, ev) ==
    [acc EXCEPT !.rv = AppendRead(acc.rv, PutDownCandidate(acc, ev)),
                !.raised = AppendReadRaises(acc.rv, PutDownCandidate(acc, ev)),
                !.latestpos = LatestPos(acc, ev[3]), !.first = None, !.start = None,
                !.read_time = 0, !.last = PUT_DOWN]

\* One iteration of the loop of reads over the sorted events.
ReadsStep(acc, ev) ==
    IF acc.raised THEN acc
    ELSE IF ev[2] = PICK_UP THEN ReadsPickUp(acc, ev)
    ELSE IF ev[2] = OPEN THEN ReadsOpen(acc, ev)
    ELSE IF ev[2] = CLOSE THEN ReadsClose(acc, ev)
    ELSE IF ev[2] = PUT_DOWN THEN ReadsPutDown(acc, ev)
    ELSE [acc EXCEPT !.last = ev[2]]

RECURSIVE ReadsFold(_)
ReadsFold(s) == IF s = <<>> THEN ReadsInit ELSE ReadsStep(ReadsFold(Front(s)), Last(s))

\* The candidate of the session still open at the end of the events.
\* The trailing candidate as it would be if it ended at the last open time.
TrailingReadEnded(acc) == <<acc.first, acc.firstpos, acc.start, acc.latestpos, acc.read_time>>

TrailingRead(acc) == <<acc.first, acc.firstpos, None, acc.latestpos, acc.read_time>>

ReadsRaises(evs) ==
    LET acc == ReadsFold(SortEvents(evs))
    IN  acc.raised \/ (Truthy(acc.first) /\ AppendReadRaises(acc.rv, TrailingRead(acc)))

Reads(evs) ==
    LET acc == ReadsFold(SortEvents(evs))
    IN  IF Truthy(acc.first) THEN AppendRead(acc.rv, TrailingRead(acc)) ELSE acc.rv

(***************************************************************************)
(* KindleBook: the event list as the trackers write it                     *)
(* The text of a position is PosEmpty for the empty string, PosBad for a   *)
(* text float() rejects, and n >= 0 for the decimal text of n.             *)
(***************************************************************************)
PosEmpty == -1

PosBad == -2

FixPosition(position) == IF position = PosBad THEN 0 ELSE position

KindleBook(asin, length) ==
    [asin |-> asin,
     length |-> IF length # PosEmpty /\ length # None THEN FixPosition(length) ELSE 0,
     events |-> <<>>]

\* _CoalesceLast as it would be if a merge kept the kind of the stored event.
CoalesceLastKeepsKind(evs, ts, new_event, match_old, old_fuzz) ==
    IF evs = <<>> THEN <<<<ts, new_event, None>>>>
    ELSE LET last == Last(evs)
         IN  IF \/ EqualWithFuzz(last[1], ts, 1)
                \/ (last[2] = match_old /\ EqualWithFuzz(last[1], ts, old_fuzz))
             THEN [evs EXCEPT ![Len(evs)] = <<Min(last[1], ts), last[2], last[3]>>]
             ELSE Append(evs, <<ts, new_event, last[3]>>)

\* events after _CoalesceLast(ts, new_event, match_old, old_fuzz)
CoalesceLast(evs, ts, new_event, match_old, old_fuzz) ==
    IF evs = <<>> THEN <<<<ts, new_event, None>>>>
    ELSE LET last == Last(evs)
         IN  IF \/ EqualWithFuzz(last[1], ts, 1)
                \/ (last[2] = match_old /\ EqualWithFuzz(last[1], ts, old_fuzz))
             THEN [evs EXCEPT ![Len(evs)] = <<Min(last[1], ts), new_event, last[3]>>]
             ELSE Append(evs, <<ts, new_event, last[3]>>)

\* events[-1][2] = _FixPosition(position), under 'if position'
SetLastPosition(evs, position) ==
    IF position # PosEmpty /\ position # None
    THEN [evs EXCEPT ![Len(evs)] = <<@[1], @[2], FixPosition(position)>>]
    ELSE evs

PickUp(evs, ts, position) == SetLastPosition(CoalesceLast(evs, ts, PICK_UP, None, 1), position)

\* PutDown as it would be without the wider tolerance after a CLOSE.
PutDownNarrow(evs, ts) == CoalesceLast(evs, ts, PUT_DOWN, None, 1)

PutDown(evs, ts) == CoalesceLast(evs, ts, PUT_DOWN, CLOSE, 15)

Open(evs, ts, position) == SetLastPosition(CoalesceLast(evs, ts, OPEN, None, 1), position)

Close(evs, ts, position) == SetLastPosition(CoalesceLast(evs, ts, CLOSE, None, 1), position)

(***************************************************************************)
(* Time zones.  pytz's localize is modelled for a period without a         *)
(* daylight-saving transition: each zone has one UTC offset in seconds.    *)
(***************************************************************************)
DEFAULT_TZ == "Europe/Dublin"

Zones == {"Europe/Dublin", "Europe/London", "Europe/Paris", "America/New_York"}

UtcOffset(tz) ==
    CASE tz = "Europe/Dublin" -> 0
      [] tz = "Europe/London" -> 0
      [] tz = "Europe/Paris" -> 3600
      [] tz = "America/New_York" -> -18000

(***************************************************************************)
(* KindleLogState                                                          *)
(* A file name messages_<seq>_<datestr> with fields of fixed width is the  *)
(* number seq * NameBase + datestr, which orders as the text does.         *)
(***************************************************************************)
ResetState ==
    [last_filename |-> None, last_ts |-> -1,
     next_tz_jump |-> None, next_tz |-> NoneStr,
     old_tz |-> NoneStr, old_tz_jump |-> None,
     timezone |-> DEFAULT_TZ,
     power_ts |-> None, power_state |-> NoneStr,
     base_realtime |-> None, base_badtime |-> None,
     book |-> NoneStr]

\* KindleLogState(copy_from): a field by field copy, or the reset state for None.
NoState == [none |-> TRUE]

CopyState(copy_from) == IF copy_from = NoState THEN ResetState ELSE copy_from

(***************************************************************************)
(* KindleLog                                                               *)
(* status is "ok" while the parser runs, "exit" after _fatal called        *)
(* sys.exit(1), "ValueError" after an exception of that type left it.      *)
(***************************************************************************)
MAX_BACKWARDS_JUMP == 3601

MAX_FORWARDS_JUMP == 10368000

MAX_FILE_JUMP == 1800

EmptyDict == [k \in {} |-> 0]

\* KindleLog(filename, initial_state) after __init__ and _reset(True)
NewLog(filename, initial_state) ==
    [filename |-> filename, initial_state |-> initial_state, parsed |-> FALSE,
     start |-> None, end |-> None, state |-> CopyState(initial_state),
     lineno |-> 0, ts |-> 0, states |-> <<>>, state_durations |-> EmptyDict,
     books |-> EmptyDict, status |-> "ok"]

\* A line: wall is the clock reading of its timestamp token in seconds, or
\* NoTimestamp when TS_REGEXP does not match; kinds is the set of the line
\* patterns that match it; a, b, length, pos are the groups they extract.
NoTimestamp == -1

ParseTimestamp(L, line) ==
    IF line.wall = NoTimestamp THEN -1
    ELSE LET ts == line.wall - UtcOffset(L.state.timezone)
         IN  IF ts < 0 THEN 0 ELSE ts

\* _fatal as it would be if it only logged its message.
FatalOnlyLogs(L) == L

Fatal(L) == [L EXCEPT !.status = "exit"]

\* Run f on L unless an earlier step already left the parser.
AndThen(L, f(_)) == IF L.status = "ok" THEN f(L) ELSE L

\* _StateTransition as it would be if the elapsed time went to the state entered.
StateTransitionCreditsNew(L, ts, new_state) ==
    LET current == L.state.power_state
        to == IF new_state = NoneStr \/ new_state = "" THEN current ELSE new_state
        d == L.state_durations
    IN  [L EXCEPT !.states = Append(@, <<ts, to>>),
                  !.state_durations =
                      [k \in DOMAIN d \cup {to} |->
                          (IF k \in DOMAIN d THEN d[k] ELSE 0)
                          + (IF k = to THEN ts - L.state.power_ts ELSE 0)],
                  !.state.power_ts = ts,
                  !.state.power_state = to]

StateTransition(L, ts, new_state) ==
    LET current == L.state.power_state
        to == IF new_state = NoneStr \/ new_state = "" THEN current ELSE new_state
        d == L.state_durations
    IN  [L EXCEPT !.states = Append(@, <<ts, to>>),
                  !.state_durations =
                      [k \in DOMAIN d \cup {current} |->
                          (IF k \in DOMAIN d THEN d[k] ELSE 0)
                          + (IF k = current THEN ts - L.state.power_ts ELSE 0)],
                  !.state.power_ts = ts,
                  !.state.power_state = to]

CalculateTime(L, tsarg) ==
    IF L.state.base_realtime = None \/ L.state.base_badtime = None THEN L
    ELSE LET ts == IF tsarg = None THEN L.ts ELSE tsarg
             diff == ts - L.state.base_badtime
             calculated_time == L.state.base_realtime + diff
             new_diff == calculated_time - L.state.base_realtime
         IN  IF new_diff > MAX_FORWARDS_JUMP THEN Fatal(L)
             ELSE [L EXCEPT !.ts = calculated_time]

SwitchTimezone(L) ==
    [L EXCEPT !.state.old_tz = L.state.timezone,
              !.state.old_tz_jump = -1 * L.state.next_tz_jump,
              !.state.timezone = L.state.next_tz,
              !.ts = L.ts + (-1 * L.state.next_tz_jump),
              !.state.next_tz = NoneStr,
              !.state.next_tz_jump = None]

\* _HandleJump as it would be without the 'back in reality' test.
HandleJumpNeverClears(L, last_ts) ==
    IF L.state.base_realtime = None THEN
        CalculateTime([L EXCEPT !.state.base_realtime = L.state.last_ts,
                                !.state.base_badtime = L.ts], None)
    ELSE LET C == CalculateTime(L, last_ts)
         IN  IF C.status # "ok" THEN C
             ELSE [C EXCEPT !.state.base_realtime = C.ts,
                            !.state.base_badtime = L.ts]

HandleJump(L, last_ts) ==
    IF L.state.base_realtime = None THEN
        CalculateTime([L EXCEPT !.state.base_realtime = L.state.last_ts,
                                !.state.base_badtime = L.ts], None)
    ELSE LET jump == L.ts - L.state.base_realtime
             C == CalculateTime(L, last_ts)
         IN  IF jump >= 0 /\ jump <= MAX_FORWARDS_JUMP THEN
                 CalculateTime([L EXCEPT !.state.base_realtime = None,
                                         !.state.base_badtime = None], None)
             ELSE IF C.status # "ok" THEN C
             ELSE [C EXCEPT !.state.base_realtime = C.ts,
                            !.state.base_badtime = L.ts]

\* last_ts of _CheckJump after the adjustment for a tracked jump
EffectiveLast(L) ==
    IF L.state.base_badtime # None
    THEN L.state.base_badtime + (L.state.last_ts - L.state.base_realtime)
    ELSE L.state.last_ts

\* The paths of _CheckJump as they would be if a jump backwards counted as
\* large from one hour on.
JumpBranchHour(L) ==
    LET last_ts == EffectiveLast(L)
        jump == L.ts - last_ts
    IN  IF L.state.base_badtime # None /\ L.state.last_ts - L.state.base_realtime < 0
        THEN "fatal"
        ELSE IF Truthy(L.state.next_tz_jump)
                /\ MatchWithFuzzByHour(L.state.next_tz_jump, jump) # None
        THEN "switch"
        ELSE IF Truthy(L.state.old_tz_jump)
                /\ MatchWithFuzzByHour(L.state.old_tz_jump, jump) # None
        THEN "straggler"
        ELSE IF ~Truthy(L.start) /\ jump > 0 /\ jump > MAX_FILE_JUMP
        THEN "missing"
        ELSE IF jump < 0 /\ Abs(jump) > HOUR
        THEN "backwards"
        ELSE IF jump > MAX_FORWARDS_JUMP
        THEN "forwards"
        ELSE "none"

\* The path _CheckJump takes for the line whose parsed timestamp is L.ts.
JumpBranch(L) ==
    LET last_ts == EffectiveLast(L)
        jump == L.ts - last_ts
    IN  IF L.state.base_badtime # None /\ L.state.last_ts - L.state.base_realtime < 0
        THEN "fatal"
        ELSE IF Truthy(L.state.next_tz_jump)
                /\ MatchWithFuzzByHour(L.state.next_tz_jump, jump) # None
        THEN "switch"
        ELSE IF Truthy(L.state.old_tz_jump)
                /\ MatchWithFuzzByHour(L.state.old_tz_jump, jump) # None
        THEN "straggler"
        ELSE IF ~Truthy(L.start) /\ jump > 0 /\ jump > MAX_FILE_JUMP
        THEN "missing"
        ELSE IF jump < 0 /\ Abs(jump) > MAX_BACKWARDS_JUMP
        THEN "backwards"
        ELSE IF jump > MAX_FORWARDS_JUMP
        THEN "forwards"
        ELSE "none"

\* The straggler path as it would be if it forgot the jump applied last.
StragglerForgets(L) ==
    LET offset == MatchWithFuzzByHour(L.state.old_tz_jump, L.ts - EffectiveLast(L))
        C == CalculateTime(L, None)
    IN  IF C.status # "ok" THEN C
        ELSE [C EXCEPT !.ts = C.ts - offset,
                       !.state.old_tz = NoneStr, !.state.old_tz_jump = None]

Straggler(L) ==
    LET offset == MatchWithFuzzByHour(L.state.old_tz_jump, L.ts - EffectiveLast(L))
        C == CalculateTime(L, None)
    IN  IF C.status # "ok" THEN C ELSE [C EXCEPT !.ts = C.ts - offset]

MissingData(L) ==
    StateTransition(StateTransition(L, EffectiveLast(L), "NO_DATA"), L.ts, "NO_DATA")

CheckJump(L) ==
    LET branch == JumpBranch(L)
    IN  CASE branch = "fatal" -> Fatal(L)
          [] branch = "switch" -> AndThen(CalculateTime(L, None), SwitchTimezone)
          [] branch = "straggler" -> Straggler(L)
          [] branch = "missing" -> MissingData(L)
          [] branch \in {"backwards", "forwards"} -> HandleJump(L, EffectiveLast(L))
          [] OTHER -> CalculateTime(L, None)

(***************************************************************************)
(* The trackers.  Each XConsumes is the return value 1 of _TrackX, each    *)
(* XTrack its effect.                                                      *)
(***************************************************************************)
PowerConsumes(L, line) ==
    /\ "state" \in line.kinds
    /\ L.state.power_ts # None
    /\ L.state.power_state # NoneStr

\* _TrackPowerState as it would be if every unexpected 'from' were a missed
\* observation, the file-start guess included.
ExpectFromAlwaysFakes(L, state_from) ==
    IF state_from = L.state.power_state THEN L
    ELSE LET duration == L.ts - L.state.power_ts
             fake_ts == L.state.power_ts + (duration \div 2)
         IN  StateTransition(L, fake_ts, state_from)

\* The placeholder correction or the faked transition of an unexpected 'from'.
ExpectFrom(L, state_from) ==
    IF state_from = L.state.power_state THEN L
    ELSE IF L.state.power_ts = L.start THEN [L EXCEPT !.state.power_state = state_from]
    ELSE LET duration == L.ts - L.state.power_ts
             fake_ts == L.state.power_ts + (duration \div 2)
         IN  StateTransition(L, fake_ts, state_from)

\* _TrackPowerState as it would be if it went to 'to' whatever 'from' says.
PowerTrackIgnoresFrom(L, line) == StateTransition(L, L.ts, line.b)

PowerTrack(L, line) == StateTransition(ExpectFrom(L, line.a), L.ts, line.b)

\* _TrackReboot as it would be if it took the markers in whatever state.
RebootConsumesAnywhere(L, line) ==
    line.kinds \cap {"linux", "initboot", "booted"} # {}

RebootConsumes(L, line) ==
    \/ "linux" \in line.kinds
    \/ /\ L.state.power_state \in {"KERNEL_BOOT", "INITSCRIPTS"}
       /\ ("initboot" \in line.kinds \/ "booted" \in line.kinds)

RebootTrack(L, line) ==
    IF "linux" \in line.kinds THEN StateTransition(L, L.ts, "KERNEL_BOOT")
    ELSE IF "initboot" \in line.kinds THEN StateTransition(L, L.ts, "INITSCRIPTS")
    ELSE StateTransition(L, L.ts, "ACTIVE")

TimezoneConsumes(L, line) == "tz" \in line.kinds

TimezoneTrack(L, line) ==
    [L EXCEPT !.state.next_tz_jump = UtcOffset(line.a) - UtcOffset(L.state.timezone),
              !.state.next_tz = line.a]

BookConsumes(L, line) == line.kinds \cap {"booklet", "book", "lpr"} # {}

\* self.books after _EnsureBook(asin, length)
EnsureBook(books, asin, length) ==
    IF asin \in DOMAIN books THEN books
    ELSE [k \in DOMAIN books \cup {asin} |->
             IF k = asin THEN KindleBook(asin, length) ELSE books[k]]

HasBook(L) == L.state.book # NoneStr /\ L.state.book # ""

BookletTransition(L, b_from, b_to) ==
    IF ~HasBook(L) THEN L
    ELSE LET bs == EnsureBook(L.books, L.state.book, None)
             evs == bs[L.state.book].events
         IN  IF b_to = "Bookworm"
             THEN [L EXCEPT !.books = [bs EXCEPT ![L.state.book].events = Open(evs, L.ts, None)]]
             ELSE IF b_from = "Bookworm"
             THEN [L EXCEPT !.books = [bs EXCEPT ![L.state.book].events = Close(evs, L.ts, None)]]
             ELSE [L EXCEPT !.books = bs]

\* _BookTransition as it would be if a new book left the old one in hand.
BookTransitionKeepsOld(L, asin, length, position) ==
    IF asin # NoneStr /\ asin # "" THEN
        LET bs == EnsureBook(L.books, asin, length)
        IN  IF ~HasBook(L) \/ L.state.book # asin
            THEN [L EXCEPT !.state.book = asin,
                           !.books = [bs EXCEPT ![asin].events = PickUp(@, L.ts, position)]]
            ELSE [L EXCEPT !.books = [bs EXCEPT ![asin].events = Open(@, L.ts, position)]]
    ELSE IF HasBook(L) THEN
        LET bs == EnsureBook(L.books, L.state.book, None)
        IN  [L EXCEPT !.books = [bs EXCEPT ![L.state.book].events = Close(@, L.ts, position)]]
    ELSE L

BookTransition(L, asin, length, position) ==
    IF asin # NoneStr /\ asin # "" THEN
        LET bs == EnsureBook(L.books, asin, length)
            held == L.state.book
            bs2 == EnsureBook(bs, held, None)
            put == [bs2 EXCEPT ![held].events = PutDown(@, L.ts)]
        IN  IF ~HasBook(L)
            THEN [L EXCEPT !.state.book = asin,
                           !.books = [bs EXCEPT ![asin].events = PickUp(@, L.ts, position)]]
            ELSE IF held # asin
            THEN [L EXCEPT !.state.book = asin,
                           !.books = [put EXCEPT ![asin].events = PickUp(@, L.ts, position)]]
            ELSE [L EXCEPT !.books = [bs EXCEPT ![asin].events = Open(@, L.ts, position)]]
    ELSE IF HasBook(L) THEN
        LET bs == EnsureBook(L.books, L.state.book, None)
        IN  [L EXCEPT !.books = [bs EXCEPT ![L.state.book].events = Close(@, L.ts, position)]]
    ELSE L

BookTrack(L, line) ==
    IF "booklet" \in line.kinds THEN BookletTransition(L, line.a, line.b)
    ELSE IF "book" \in line.kinds THEN BookTransition(L, line.a, line.length, line.pos)
    ELSE BookTransition(L, NoneStr, PosEmpty, line.pos)

\* The consumer as it would be if _ParseFile asked the reboot tracker first.
ConsumerRebootFirst(L, line) ==
    IF RebootConsumes(L, line) THEN "reboot"
    ELSE IF PowerConsumes(L, line) THEN "power"
    ELSE IF TimezoneConsumes(L, line) THEN "timezone"
    ELSE IF BookConsumes(L, line) THEN "book"
    ELSE "none"

\* The name of the tracker that consumes the line, in the order _ParseFile asks them.
Consumer(L, line) ==
    IF PowerConsumes(L, line) THEN "power"
    ELSE IF RebootConsumes(L, line) THEN "reboot"
    ELSE IF TimezoneConsumes(L, line) THEN "timezone"
    ELSE IF BookConsumes(L, line) THEN "book"
    ELSE "none"

Dispatch(L, line) ==
    LET c == Consumer(L, line)
    IN  CASE c = "power" -> PowerTrack(L, line)
          [] c = "reboot" -> RebootTrack(L, line)
          [] c = "timezone" -> TimezoneTrack(L, line)
          [] c = "book" -> BookTrack(L, line)
          [] OTHER -> L

\* The first valid line of a file sets its start and the NO_DATA placeholder.
EstablishStart(L) ==
    [L EXCEPT !.start = L.ts,
              !.state.power_ts = IF ~Truthy(L.state.power_ts) THEN L.ts ELSE @,
              !.state.power_state = IF ~Truthy(L.state.power_ts) THEN "NO_DATA" ELSE @]

\* Whether the line is skipped for lying before the start of the file.
BeforeStart(L) == Truthy(L.start) /\ L.ts < L.start

\* The rest of an iteration of the loop of _ParseFile after _CheckJump.
AcceptLine(L, line) ==
    IF BeforeStart(L) THEN L
    ELSE LET S == IF ~Truthy(L.start) THEN EstablishStart(L) ELSE L
             D == Dispatch(S, line)
         IN  [D EXCEPT !.state.last_ts = D.ts]

\* One iteration of the loop of _ParseFile.
ParseLine(L, line) ==
    LET P == [L EXCEPT !.lineno = L.lineno + 1, !.ts = ParseTimestamp(L, line)]
        J == IF P.state.last_ts > -1 THEN CheckJump(P) ELSE P
    IN  IF L.status # "ok" THEN L
        ELSE IF P.ts < 0 THEN P
        ELSE IF J.status # "ok" THEN J
        ELSE AcceptLine(J, line)

\* _ParseFile after its loop.
EndOfFile(L) ==
    IF L.status # "ok" THEN L
    ELSE IF L.state.last_ts < 0 THEN [L EXCEPT !.status = "ValueError"]
    ELSE LET E == StateTransition([L EXCEPT !.end = L.state.last_ts],
                                  L.state.last_ts, NoneStr)
         IN  [E EXCEPT !.parsed = TRUE, !.state.last_filename = L.filename]

RECURSIVE ParseLines(_, _)
ParseLines(L, lines) ==
    IF lines = <<>> THEN L ELSE ParseLine(ParseLines(L, Front(lines)), Last(lines))

ParseFile(L, lines) == EndOfFile(ParseLines(L, lines))

(***************************************************************************)
(* Parsing line by line: the loop of _ParseFile as a state machine.        *)
(* Each entry of hist is a line with the file it was read from, the        *)
(* timestamp parsed from it (raw), the path of _CheckJump it took, whether *)
(* it passed the start check, the tracker that consumed it and its         *)
(* corrected timestamp (ts).                                               *)
(***************************************************************************)
MaxLogFiles == 2

T0 == 50000000

Line(wall, kinds, a, b, length, pos) ==
    [wall |-> wall, kinds |-> kinds, a |-> a, b |-> b, length |-> length, pos |-> pos]

Other(wall) == Line(wall, {}, "", "", PosEmpty, PosEmpty)

NoTimestampLine == Other(NoTimestamp)

StateLine(wall, from, to) == Line(wall, {"state"}, from, to, PosEmpty, PosEmpty)

RebootLine(wall, kind) == Line(wall, {kind}, "", "", PosEmpty, PosEmpty)

TzLine(wall, zone) == Line(wall, {"tz"}, zone, "", PosEmpty, PosEmpty)

\* What the parser makes of a line read in state L: pre and post are the
\* KindleLogState before and after the line, jump the delta _CheckJump computes.
Parsed(L, line) ==
    LET P == [L EXCEPT !.ts = ParseTimestamp(L, line)]
        checked == L.status = "ok" /\ P.ts >= 0 /\ P.state.last_ts > -1
        J == IF checked THEN CheckJump(P) ELSE P
        accepted == P.ts >= 0 /\ J.status = "ok" /\ ~BeforeStart(J)
        S == IF ~Truthy(J.start) THEN EstablishStart(J) ELSE J
        R == ParseLine(L, line)
    IN  [line |-> line, file |-> L.filename, raw |-> P.ts,
         branch |-> IF checked THEN JumpBranch(P) ELSE "unchecked",
         jump |-> IF checked THEN P.ts - EffectiveLast(P) ELSE 0,
         accepted |-> accepted,
         consumer |-> IF accepted THEN Consumer(S, line) ELSE "none",
         ts |-> R.ts, pre |-> L.state, post |-> R.state, status |-> R.status]

LineIdle ==
    /\ log = NewLog(0, NoState)
    /\ prev = NewLog(0, NoState)
    /\ hist = <<>>
    /\ clock = 0

LineInit ==
    /\ log = NewLog(1, NoState)
    /\ prev = NewLog(1, NoState)
    /\ hist = <<>>
    /\ clock = T0

Reading == log.status = "ok" /\ ~log.parsed

\* The loop of _ParseFile reads one line.
ReadLine(line, bound) ==
    /\ Reading
    /\ Len(hist) < bound
    /\ log' = ParseLine(log, line)
    /\ prev' = log
    /\ hist' = Append(hist, Parsed(log, line))
    /\ clock' = IF line.wall = NoTimestamp THEN clock ELSE line.wall
    /\ UNCHANGED <<readsVars, mainVars>>

\* The file has no more lines.
FinishFile ==
    /\ Reading
    /\ log' = EndOfFile(log)
    /\ prev' = log
    /\ UNCHANGED <<hist, clock, readsVars, mainVars>>

\* The orchestrator hands the state of the parsed file to the next file.
NextFile ==
    /\ log.parsed
    /\ log.filename < MaxLogFiles
    /\ log' = NewLog(log.filename + 1, log.state)
    /\ prev' = log
    /\ UNCHANGED <<hist, clock, readsVars, mainVars>>

(***************************************************************************)
(* Power states: files of state change lines, reboot markers and other     *)
(* lines, a few seconds apart.                                             *)
(***************************************************************************)
MaxPowerLines == 3

PowerSteps == {0, 7}

Transitions ==
    {<<"Active", "Screen Saver">>, <<"Screen Saver", "Ready to suspend">>,
     <<"Ready to suspend", "Active">>, <<"Active", "Ready to suspend">>}

RebootMarkers == {"linux", "initboot", "booted"}

ReadOtherLine == ReadLine(Other(clock + 7), MaxPowerLines)

ReadUnstampedLine == ReadLine(NoTimestampLine, MaxPowerLines)

ReadStateLine ==
    \E d \in PowerSteps, t \in Transitions :
        ReadLine(StateLine(clock + d, t[1], t[2]), MaxPowerLines)

ReadRebootLine == \E k \in RebootMarkers : ReadLine(RebootLine(clock + 7, k), MaxPowerLines)

PowerNext ==
    \/ ReadOtherLine
    \/ ReadUnstampedLine
    \/ ReadStateLine
    \/ ReadRebootLine
    \/ FinishFile
    \/ NextFile

ReadsIdle == events = <<>>

\* KindleLogs()
KindleLogs == [files |-> <<>>, state |-> NoState]

\* A path of the file system: whether a file is there, and its content.
Absent == [exists |-> FALSE, bytes |-> <<>>]

\* last_seq = ('', ''): a pair that is no file's seq, and below every datestr
NoSeq == <<-1, -1>>

\* What a run leaves behind: how it ended, the files it parsed, whether it
\* replaced the state file, and what it printed and exposed.
NoOutcome ==
    [n |-> 0, status |-> "none", listing |-> <<>>, parsed |-> <<>>, stored |-> FALSE,
     files |-> <<>>, state |-> NoState, states |-> EmptyDict, books |-> EmptyDict,
     backwards |-> FALSE]

\* A run: its number, the state file and the listing it started from, the
\* files it has parsed, whether it has replaced the state file, and what the
\* run before it left behind.
NoRun ==
    [n |-> 0, ckpt0 |-> Absent, listing |-> <<>>, parsed |-> <<>>, stored |-> FALSE,
     last |-> NoOutcome]

MainIdle ==
    /\ logs = KindleLogs
    /\ dir = {}
    /\ ckpt = Absent
    /\ tmpfile = Absent
    /\ pc = "idle"
    /\ todo = <<>>
    /\ last_seq = NoSeq
    /\ run = NoRun
    /\ out = NoOutcome

PowerInit == LineInit /\ ReadsIdle /\ MainIdle

SpecPower == PowerInit /\ [][PowerNext]_vars

\* The lines of the file being parsed that passed the timestamp and start checks.
InCurrentFile(e) == e.file = log.filename /\ e.accepted

CurrentLines == SelectSeq(hist, InCurrentFile)

ByPower(e) == e.consumer = "power"

ByReboot(e) == e.consumer = "reboot"

\* The file had no carried power state, its only transitions are the explicit
\* A -> B and B -> C, with A, B and C three different states.
ThreeStateFile ==
    LET ps == SelectSeq(CurrentLines, ByPower)
    IN  /\ log.parsed
        /\ log.initial_state = NoState
        /\ SelectSeq(CurrentLines, ByReboot) = <<>>
        /\ Len(ps) = 2
        /\ ps[1].line.b = ps[2].line.a
        /\ ps[1].line.a # ps[1].line.b
        /\ ps[2].line.a # ps[2].line.b
        /\ ps[1].line.a # ps[2].line.b

\* C4: a file with no carried power state, first valid line at t0, A -> B at t1,
\* B -> C at t2 and last valid line at t3 ends with the durations A: t1 - t0,
\* B: t2 - t1, C: t3 - t2 and nothing else.
C4_DurationAccounting ==
    ThreeStateFile =>
        LET ps == SelectSeq(CurrentLines, ByPower)
            t0 == CurrentLines[1].ts
            t1 == ps[1].ts
            t2 == ps[2].ts
            t3 == Last(CurrentLines).ts
            A == ps[1].line.a
            B == ps[1].line.b
            C == ps[2].line.b
            d == log.state_durations
        IN  /\ t0 <= t1 /\ t1 <= t2 /\ t2 <= t3
            /\ {A, B, C} \subseteq DOMAIN d
            /\ d[A] = t1 - t0
            /\ d[B] = t2 - t1
            /\ d[C] = t3 - t2
            /\ \A k \in DOMAIN d \ {A, B, C} : d[k] = 0

C4_Witness ==
    /\ ThreeStateFile
    /\ log.state_durations[SelectSeq(CurrentLines, ByPower)[1].line.a] > 0
    /\ log.state_durations[SelectSeq(CurrentLines, ByPower)[1].line.b] > 0

(***************************************************************************)
(* Time: files of lines whose clock readings jump, and timezone change     *)
(* lines.  The device moves between Dublin and New York.                   *)
(***************************************************************************)
MaxTimeLines == 4

FarJump == 10369000

TimeSteps == {10, FarJump, -FarJump, -18000, -21600, 18000}

TimeZoneChanges == {"America/New_York", "Europe/Dublin"}

ReadTimedLine == \E d \in TimeSteps : ReadLine(Other(clock + d), MaxTimeLines)

ReadTimezoneLine == \E z \in TimeZoneChanges : ReadLine(TzLine(clock + 10, z), MaxTimeLines)

TimeNext ==
    \/ ReadTimedLine
    \/ ReadTimezoneLine
    \/ FinishFile
    \/ NextFile

SpecTime == PowerInit /\ [][TimeNext]_vars

BaselineActive(st) == st.base_realtime # None

\* The raw timestamp is a forward delta within normal bounds from the last good
\* corrected time.
BackInReality(e) ==
    /\ e.raw - e.pre.base_realtime >= 0
    /\ e.raw - e.pre.base_realtime <= MAX_FORWARDS_JUMP

\* C7 as stated: with a baseline established, any line that is not resolved by a
\* timezone jump and whose raw timestamp is consistent with the corrected clock
\* again clears the baseline.
C7_ClearsWheneverConsistent ==
    \A i \in 1..Len(hist) :
        LET e == hist[i]
        IN  (/\ BaselineActive(e.pre)
             /\ e.branch \in {"none", "backwards", "forwards"}
             /\ BackInReality(e))
            => ~BaselineActive(e.post)

\* C7 as amended: the baseline is cleared on a line that _CheckJump detects as a
\* large jump and whose raw timestamp is consistent with the corrected clock
\* again; that line's corrected timestamp is its raw one, and so is that of every
\* line read with no baseline active and no discontinuity detected.
C7_ClearsOnLargeJumpBack ==
    \A i \in 1..Len(hist) :
        LET e == hist[i]
        IN  /\ (/\ BaselineActive(e.pre)
                /\ e.branch \in {"backwards", "forwards"}
                /\ BackInReality(e))
               => (/\ e.post.base_realtime = None
                   /\ e.post.base_badtime = None
                   /\ e.ts = e.raw)
            /\ (/\ ~BaselineActive(e.pre)
                /\ e.branch \in {"none", "missing"})
               => (/\ ~BaselineActive(e.post)
                   /\ e.ts = e.raw)

\* A baseline was established, a large jump back cleared it, a line followed.
C7_Witness ==
    \E i \in 1..Len(hist) - 1 :
        /\ BaselineActive(hist[i].pre)
        /\ hist[i].branch \in {"backwards", "forwards"}
        /\ BackInReality(hist[i])
        /\ hist[i + 1].branch = "none"
        /\ hist[i + 1].ts = hist[i + 1].raw

\* value is within the fuzz of ref, of ref - 1 h or of ref + 1 h
WithinFuzzByHour(ref, value) ==
    \E k \in {-HOUR, 0, HOUR} : EqualWithFuzz(ref + k, value, DEFAULT_FUZZ)

\* C8: a line whose delta matches the pending timezone jump exactly or shifted by
\* one hour either way commits the switch, and the active zone changes only so.
C8_SwitchCommits ==
    \A i \in 1..Len(hist) :
        LET e == hist[i]
        IN  /\ (/\ Truthy(e.pre.next_tz_jump)
                /\ e.branch \notin {"unchecked", "fatal"}
                /\ e.status = "ok"
                /\ WithinFuzzByHour(e.pre.next_tz_jump, e.jump))
               => (/\ e.post.timezone = e.pre.next_tz
                   /\ e.post.old_tz = e.pre.timezone
                   /\ e.post.old_tz_jump = -1 * e.pre.next_tz_jump
                   /\ e.post.next_tz = NoneStr
                   /\ e.post.next_tz_jump = None)
            /\ (e.post.timezone # e.pre.timezone)
               => (e.branch = "switch" /\ Truthy(e.pre.next_tz_jump))

(***************************************************************************)
(* Session folding: reads applied to event lists of bounded length.        *)
(***************************************************************************)
MaxEvents == 4

EventKinds == {PICK_UP, PUT_DOWN, OPEN, CLOSE}

\* An event list grows by one event, later than the ones before it; a move is
\* the time since the event before and the position of the new event.
RecordEvent(starts, moves) ==
    /\ Len(events) < MaxEvents
    /\ \E k \in EventKinds, m \in moves :
           \/ /\ events = <<>>
              /\ \E t \in starts : events' = <<<<t, k, m[2]>>>>
           \/ /\ events # <<>>
              /\ events' = Append(events, <<Last(events)[1] + m[1], k, m[2]>>)
    /\ UNCHANGED <<lineVars, mainVars>>

MergeMoves == {<<10, 100>>, <<300, 150>>, <<10, 150>>, <<290, 300>>, <<300, 300>>}

RecordMergeEvent == RecordEvent({T0}, MergeMoves)

NoEvents == ReadsIdle /\ LineIdle /\ MainIdle

SpecReads == NoEvents /\ [][RecordMergeEvent]_vars

AcceptSteps == {30, 300, 660}

AcceptPositions == {100, 150}

RecordAcceptEvent == RecordEvent({T0}, AcceptSteps \X AcceptPositions)

SpecAccept == NoEvents /\ [][RecordAcceptEvent]_vars

\* PICK_UP@t0 pos 100, CLOSE@t0+300 pos 150, PICK_UP@t0+310 pos 150,
\* PUT_DOWN@t0+600 pos 300
MergeExample ==
    /\ Len(events) = 4
    /\ events[1][2] = PICK_UP /\ events[1][3] = 100
    /\ events[2] = <<events[1][1] + 300, CLOSE, 150>>
    /\ events[3] = <<events[1][1] + 310, PICK_UP, 150>>
    /\ events[4] = <<events[1][1] + 600, PUT_DOWN, 300>>

\* C5 as stated: the example folds to one session from t0 at 100 to t0+600 at
\* 300 with about 590 s of read time.
C5_OneSessionFromFirstPickUp ==
    MergeExample =>
        LET r == Reads(events)
        IN  /\ Len(r) = 1
            /\ r[1][1] = events[1][1] /\ r[1][2] = 100
            /\ r[1][3] = events[1][1] + 600 /\ r[1][4] = 300
            /\ r[1][5] >= 580 /\ r[1][5] <= 600

\* C5 as amended: the example folds to one session that starts at the second
\* PICK_UP, t0+310 at 150, ends at t0+600 at 300, and has 290 s of read time:
\* the second PICK_UP drops what was accrued before it.
C5_OneSessionFromSecondPickUp ==
    MergeExample =>
        Reads(events) = <<<<events[1][1] + 310, 150, events[1][1] + 600, 300, 290>>>>

C5_Witness == MergeExample /\ Len(Reads(events)) = 1 /\ ~ReadsRaises(events)

\* The discard rule of C6.
Discarded(read) ==
    \/ read[5] < 2 * 60
    \/ (read[4] < read[2] /\ read[5] < 10 * 60)

\* C6: the candidate of the latest PUT_DOWN, and the one of the session still
\* open, is discarded exactly when its read time is under 2 minutes, or it ends
\* before where it started and its read time is under 10 minutes; PICK_UP then
\* PUT_DOWN 30 s later gives no session, a backward session of 5 minutes is
\* rejected and one of 11 minutes accepted; no derived session breaks the
\* thresholds.
C6_AcceptanceThresholds ==
    LET S == SortEvents(events)
        acc == ReadsFold(Front(S))
        fin == ReadsStep(acc, Last(S))
        c == PutDownCandidate(acc, Last(S))
        trail == TrailingRead(fin)
        raises == fin.raised \/ (Truthy(fin.first) /\ AppendReadRaises(fin.rv, trail))
        r == IF Truthy(fin.first) THEN AppendRead(fin.rv, trail) ELSE fin.rv
    IN  events # <<>> =>
        /\ (Last(S)[2] = PUT_DOWN /\ ~fin.raised) => ((fin.rv = acc.rv) <=> Discarded(c))
        /\ (Truthy(fin.first) /\ ~raises) => ((r = fin.rv) <=> Discarded(trail))
        /\ ~raises => \A i \in 1..Len(r) : ~Discarded(r[i])
        /\ (/\ Len(events) = 2
            /\ events[1][2] = PICK_UP /\ events[2][2] = PUT_DOWN
            /\ events[2][1] = events[1][1] + 30)
               => r = <<>>
        /\ (/\ Len(events) = 2
            /\ events[1][2] = PICK_UP /\ events[2][2] = PUT_DOWN
            /\ events[2][3] < events[1][3])
               => /\ events[2][1] = events[1][1] + 300 => r = <<>>
                  /\ events[2][1] = events[1][1] + 660 => Len(r) = 1

\* A backward session of 11 minutes was accepted.
C6_Witness ==
    /\ Len(events) = 2
    /\ events[1][2] = PICK_UP /\ events[2][2] = PUT_DOWN
    /\ events[2][3] < events[1][3]
    /\ events[2][1] = events[1][1] + 660
    /\ Len(Reads(events)) = 1

(***************************************************************************)
(* The directory orchestrator.                                             *)
(* A log file is messages_<seq>_<datestr>; both fields have a fixed width, *)
(* so the order of the names is the order of the pairs <<seq, datestr>>.   *)
(* A name is modelled as the number seq * NameBase + datestr.              *)
(***************************************************************************)
NameBase == 10

\* _, seq, datestr = logfile.split('_', 2)
SeqOf(name) == name \div NameBase

DateOf(name) == name % NameBase

BookLine(wall, asin, length, pos) == Line(wall, {"book"}, asin, "", length, pos)

LprLine(wall, pos) == Line(wall, {"lpr"}, "", "", PosEmpty, pos)

\* The files that can turn up in the directory, by name.
\*   5  no line with a timestamp
\*  11  a book is picked up and read
\*  21  the book is opened again
\*  22  a later version of 21, in which a second book is picked up
\*  31  a two hour jump backwards and then more than 120 days forwards
\*  41  a file whose lines lie before the end of the files before it
FileNames == {5, 11, 21, 22, 31, 41}

SeventyDays == 6048000

Content(name) ==
    CASE name = 5 -> <<NoTimestampLine, NoTimestampLine>>
      [] name = 11 -> <<BookLine(T0, "B1", 1000, 100),
                        StateLine(T0 + 200, "Active", "Screen Saver"),
                        LprLine(T0 + 300, 150)>>
      [] name = 21 -> <<BookLine(T0 + 310, "B1", 1000, 150),
                        StateLine(T0 + 400, "Screen Saver", "Active")>>
      [] name = 22 -> <<BookLine(T0 + 310, "B1", 1000, 150),
                        StateLine(T0 + 400, "Screen Saver", "Active"),
                        BookLine(T0 + 600, "B2", 500, 0)>>
      [] name = 31 -> <<Other(T0 - 7200),
                        Other(T0 - 7200 + SeventyDays),
                        Other(T0 - 7200 + 2 * SeventyDays),
                        Other(T0 - 7200 + 2 * SeventyDays + 10)>>
      [] name = 41 -> <<LprLine(T0 + 100, 120),
                        StateLine(T0 + 150, "Active", "Ready to suspend"),
                        BookLine(T0 + 800, "B1", 1000, 400)>>

\* sorted(os.listdir(directory))
RECURSIVE Sorted(_)
Sorted(S) ==
    IF S = {} THEN <<>>
    ELSE LET m == CHOOSE x \in S : \A y \in S : x <= y
         IN  <<m>> \o Sorted(S \ {m})

\* The test that skips a file the loaded state already covers.
AlreadyProcessedStrict(K, logfile) ==
    K.state # NoState /\ logfile < K.state.last_filename

AlreadyProcessed(K, logfile) ==
    K.state # NoState /\ logfile <= K.state.last_filename

\* The test for a newer version of the file handled last.
NewerVersion(seq, logfile) == seq[1] = SeqOf(logfile) /\ DateOf(logfile) > seq[2]

\* The log.state property: parses the file unless it is parsed.
StateOf(L) == IF L.parsed THEN L ELSE ParseFile(L, Content(L.filename))

\* One iteration of the loop of ProcessDirectory.  P holds the KindleLogs
\* object K, last_seq, the names parsed so far and how the run stands:
\* "ok", "exit" after sys.exit(1), or the name of an exception nobody caught.
\* The try block, L being the new KindleLog after self.state = log.state.
AppendLog(P, logfile, L) ==
    IF L.status = "ok"
    THEN [P EXCEPT !.K = [files |-> Append(P.K.files, L), state |-> L.state],
                   !.seq = <<SeqOf(logfile), DateOf(logfile)>>,
                   !.parsed = Append(@, logfile)]
    ELSE IF L.status = "ValueError"
    THEN [P EXCEPT !.K.files = Append(@, [L EXCEPT !.status = "ok"])]
    ELSE [P EXCEPT !.K.files = Append(@, L), !.status = L.status]

\* The try block as it would be if every file started without a carried state.
ParseNewFresh(P, logfile) ==
    AppendLog(P, logfile, ParseFile(NewLog(logfile, NoState), Content(logfile)))

ParseNew(P, logfile) ==
    AppendLog(P, logfile, ParseFile(NewLog(logfile, P.K.state), Content(logfile)))

\* self.state = self.files[-1].state, under being the file that is now last.
TakeState(P, logfile, under) ==
    IF under.status # "ok" THEN [P EXCEPT !.status = under.status]
    ELSE ParseNew([P EXCEPT !.K = [files |-> [Front(P.K.files) EXCEPT
                                                  ![Len(P.K.files) - 1] = under],
                                   state |-> under.state]], logfile)

\* After old = self.files.pop(-1): the log line reads old.state.
Popped(P, logfile, old) ==
    IF old.status # "ok" THEN [P EXCEPT !.status = old.status]
    ELSE IF Len(P.K.files) = 1 THEN [P EXCEPT !.status = "IndexError"]
    ELSE TakeState(P, logfile, StateOf(P.K.files[Len(P.K.files) - 1]))

ProcessFile(P, logfile) ==
    IF P.status # "ok" THEN P
    ELSE IF AlreadyProcessed(P.K, logfile)
    THEN [P EXCEPT !.seq = <<SeqOf(logfile), DateOf(logfile)>>]
    ELSE IF ~NewerVersion(P.seq, logfile) THEN ParseNew(P, logfile)
    ELSE IF P.K.files = <<>> THEN [P EXCEPT !.status = "IndexError"]
    ELSE Popped(P, logfile, StateOf(Last(P.K.files)))

\* cmp(self.start, other.start): None sorts before every number.
RECURSIVE InsertByStart(_, _)
InsertByStart(s, L) ==
    IF s = <<>> THEN <<L>>
    ELSE IF Last(s).start <= L.start THEN Append(s, L)
    ELSE Append(InsertByStart(Front(s), L), Last(s))

RECURSIVE SortByStart(_)
SortByStart(s) == IF s = <<>> THEN <<>> ELSE InsertByStart(SortByStart(Front(s)), Last(s))

\* The end of ProcessDirectory: self.files.sort() and the 'Found %d logs' line,
\* both of which read the start of files and so parse the ones left unparsed.
FinishWith(P, fs) ==
    LET bad == {i \in 1..Len(fs) : fs[i].status # "ok"}
        first == CHOOSE i \in bad : \A j \in bad : i <= j
    IN  IF P.status # "ok" THEN P
        ELSE IF fs = <<>> THEN [P EXCEPT !.status = "IndexError"]
        ELSE IF bad # {} THEN [P EXCEPT !.status = fs[first].status]
        ELSE [P EXCEPT !.K.files = SortByStart(fs)]

FinishDirectory(P) == FinishWith(P, [i \in 1..Len(P.K.files) |-> StateOf(P.K.files[i])])

\* GetStates(): the durations of the files, summed by state.
RECURSIVE GetStates(_)
GetStates(files) ==
    IF files = <<>> THEN EmptyDict
    ELSE LET rest == GetStates(Front(files))
             d == Last(files).state_durations
         IN  [k \in DOMAIN rest \cup DOMAIN d |->
                 (IF k \in DOMAIN rest THEN rest[k] ELSE 0)
                 + (IF k \in DOMAIN d THEN d[k] ELSE 0)]

\* KindleBook.UpdateEvents: the field backwards of a merged book tells whether
\* the 'Going backwards in time' message has been logged for it.
UpdateEvents(book, evs) ==
    LET sorted == SortEvents(evs)
        back == book.events # <<>> /\ sorted[1][1] < Last(book.events)[1]
    IN  IF sorted = <<>> THEN book
        ELSE [book EXCEPT !.events = @ \o sorted, !.backwards = @ \/ back]

\* The first loop of the books property: the books of the files, merged by ASIN.
RECURSIVE MergeBooks(_)
MergeBooks(files) ==
    IF files = <<>> THEN EmptyDict
    ELSE LET rest == MergeBooks(Front(files))
             bs == Last(files).books
         IN  [a \in DOMAIN rest \cup DOMAIN bs |->
                 IF a \notin DOMAIN rest
                 THEN [asin |-> a, length |-> bs[a].length, events |-> bs[a].events,
                       backwards |-> FALSE]
                 ELSE IF a \in DOMAIN bs THEN UpdateEvents(rest[a], bs[a].events)
                 ELSE rest[a]]

\* The books property: raised tells whether reads raised an exception in the
\* second loop, backwards whether UpdateEvents logged its message.
Books(files) ==
    LET merged == MergeBooks(files)
        raised == \E a \in DOMAIN merged : ReadsRaises(merged[a].events)
        kept == {a \in DOMAIN merged : Len(Reads(merged[a].events)) > 0}
    IN  [raised |-> raised,
         backwards |-> \E a \in DOMAIN merged : merged[a].backwards,
         books |-> IF raised THEN EmptyDict ELSE [a \in kept |-> merged[a]]]

\* pickle.dump(logs, fp): the stream names the class and holds its attributes.
Dump(K) == <<"KindleLogs", K.files, K.state>>

\* What is in the file when only part of the stream has been written.
Partial(K) == SubSeq(Dump(K), 1, 2)

\* pickle.load(fp) raises on a stream that is cut short.
LoadRaises(bytes) == Len(bytes) # 3

Load(bytes) == [files |-> bytes[2], state |-> bytes[3]]

\* LoadHistory as it would be if it never found the state file.
LoadHistoryCold(file) == KindleLogs

\* LoadHistory as it would be if it kept the files it could read from a stream
\* that is cut short.
LoadHistorySalvages(file) ==
    IF ~file.exists THEN KindleLogs
    ELSE IF LoadRaises(file.bytes) THEN [files |-> file.bytes[2], state |-> NoState]
    ELSE Load(file.bytes)

\* LoadHistory(filename) followed by 'if not logs: logs = KindleLogs()'
LoadHistory(file) ==
    IF ~file.exists \/ LoadRaises(file.bytes) THEN KindleLogs ELSE Load(file.bytes)

(***************************************************************************)
(* main() in directory mode, step by step.                                 *)
(***************************************************************************)
MaxRuns == 2

\* A file is copied into the log directory before a run.
AddFile ==
    /\ pc = "idle"
    /\ run.n < MaxRuns
    /\ \E f \in FileNames \ dir : dir' = dir \cup {f}
    /\ UNCHANGED <<logs, ckpt, tmpfile, pc, todo, last_seq, run, out, readsVars, lineVars>>

\* main() up to the loop of ProcessDirectory.
StartRun ==
    /\ pc = "idle"
    /\ run.n < MaxRuns
    /\ logs' = LoadHistory(ckpt)
    /\ todo' = Sorted(dir)
    /\ last_seq' = NoSeq
    /\ run' = [n |-> run.n + 1, ckpt0 |-> ckpt, listing |-> Sorted(dir),
               parsed |-> <<>>, stored |-> FALSE, last |-> out]
    /\ pc' = "files"
    /\ UNCHANGED <<dir, ckpt, tmpfile, out, readsVars, lineVars>>

\* The process ends: with status "ok" from the end of main(), or else from
\* sys.exit(1), an exception nobody caught, or a kill.
EndRun(status, K, exposed, parsed, stored) ==
    /\ out' = [n |-> run.n, status |-> status, listing |-> run.listing,
               parsed |-> parsed, stored |-> stored,
               files |-> K.files, state |-> K.state, states |-> GetStates(K.files),
               books |-> exposed.books, backwards |-> exposed.backwards]
    /\ pc' = "idle"
    /\ logs' = KindleLogs
    /\ todo' = <<>>
    /\ last_seq' = NoSeq

NothingExposed == [raised |-> FALSE, backwards |-> FALSE, books |-> EmptyDict]

\* How a step of ProcessDirectory that ended as P leaves the program.
Proceed(P, rest, at) ==
    /\ run' = [run EXCEPT !.parsed = P.parsed]
    /\ IF P.status = "ok"
       THEN /\ logs' = P.K
            /\ last_seq' = P.seq
            /\ todo' = rest
            /\ pc' = at
            /\ UNCHANGED out
       ELSE EndRun(P.status, P.K, NothingExposed, P.parsed, FALSE)
    /\ UNCHANGED <<dir, ckpt, tmpfile, readsVars, lineVars>>

\* The local variables of ProcessDirectory.
Locals == [K |-> logs, seq |-> last_seq, parsed |-> run.parsed, status |-> "ok"]

\* One iteration of the loop of ProcessDirectory.
VisitFile ==
    /\ pc = "files"
    /\ todo # <<>>
    /\ Proceed(ProcessFile(Locals, Head(todo)), Tail(todo), "files")

\* ProcessDirectory after its loop, and PrintStates.
EndDirectory ==
    /\ pc = "files"
    /\ todo = <<>>
    /\ Proceed(FinishDirectory(Locals), <<>>, "store")

\* StoreHistory: fp = open(tmp_filename, 'wb')
StoreOpen ==
    /\ pc = "store"
    /\ tmpfile' = [exists |-> TRUE, bytes |-> <<>>]
    /\ pc' = "dump"
    /\ UNCHANGED <<logs, dir, ckpt, todo, last_seq, run, out, readsVars, lineVars>>

\* StoreHistory: pickle.dump has written a part of the stream.
DumpPart ==
    /\ pc = "dump"
    /\ tmpfile' = [exists |-> TRUE, bytes |-> Partial(logs)]
    /\ pc' = "dump2"
    /\ UNCHANGED <<logs, dir, ckpt, todo, last_seq, run, out, readsVars, lineVars>>

\* StoreHistory: pickle.dump has written the rest, and fp.close()
DumpRest ==
    /\ pc = "dump2"
    /\ tmpfile' = [exists |-> TRUE, bytes |-> Dump(logs)]
    /\ pc' = "rename"
    /\ UNCHANGED <<logs, dir, ckpt, todo, last_seq, run, out, readsVars, lineVars>>

\* StoreHistory: open, dump or close raised; the except branch unlinks the
\* temporary file and returns.
StoreFails ==
    /\ pc \in {"store", "dump", "dump2"}
    /\ tmpfile' = Absent
    /\ pc' = "books"
    /\ UNCHANGED <<logs, dir, ckpt, todo, last_seq, run, out, readsVars, lineVars>>

\* The step of StoreHistory that replaces the state file, as it would be if
\* the stream were written into the state file itself.
RenameCutsShort(file) == [exists |-> TRUE, bytes |-> SubSeq(file.bytes, 1, 2)]

\* os.rename(tmp_filename, filename): the state file after it
Rename(file) == file

StoreRename ==
    /\ pc = "rename"
    /\ ckpt' = Rename(tmpfile)
    /\ tmpfile' = Absent
    /\ run' = [run EXCEPT !.stored = TRUE]
    /\ pc' = "books"
    /\ UNCHANGED <<logs, dir, todo, last_seq, out, readsVars, lineVars>>

\* books = logs.books, and the end of main()
ExposeBooks ==
    /\ pc = "books"
    /\ LET B == Books(logs.files)
       IN  EndRun(IF B.raised THEN "TypeError" ELSE "ok", logs, B, run.parsed, run.stored)
    /\ UNCHANGED <<dir, ckpt, tmpfile, run, readsVars, lineVars>>

\* The process is killed.
Kill ==
    /\ pc # "idle"
    /\ EndRun("killed", logs, NothingExposed, run.parsed, run.stored)
    /\ UNCHANGED <<dir, ckpt, tmpfile, run, readsVars, lineVars>>

Init == ReadsIdle /\ LineIdle /\ MainIdle

Next ==
    \/ AddFile
    \/ StartRun
    \/ VisitFile
    \/ EndDirectory
    \/ StoreOpen
    \/ DumpPart
    \/ DumpRest
    \/ StoreFails
    \/ StoreRename
    \/ ExposeBooks
    \/ Kill

Spec == Init /\ [][Next]_vars

\* Between two runs something damages the state file: what is left of it is a
\* stream that pickle.load cannot read to its end.
Damaged(file) == [exists |-> TRUE, bytes |-> SubSeq(file.bytes, 1, 2)]

DamageStateFile ==
    /\ pc = "idle"
    /\ run.n < MaxRuns
    /\ ckpt.exists
    /\ ~LoadRaises(ckpt.bytes)
    /\ ckpt' = Damaged(ckpt)
    /\ UNCHANGED <<logs, dir, tmpfile, pc, todo, last_seq, run, out, readsVars, lineVars>>

\* main() in directory mode with state files that can turn out unreadable.
NextDamaged ==
    \/ AddFile
    \/ DamageStateFile
    \/ StartRun
    \/ VisitFile
    \/ EndDirectory
    \/ StoreOpen
    \/ DumpPart
    \/ DumpRest
    \/ StoreFails
    \/ StoreRename
    \/ ExposeBooks
    \/ Kill

SpecDamaged == Init /\ [][NextDamaged]_vars

\* The exit status of a run that ended with the given status.
ExitCode(status) == IF status = "ok" THEN 0 ELSE 1

\* ProcessDirectory as one function of the KindleLogs object and the listing.
RECURSIVE ProcessAll(_, _)
ProcessAll(P, listing) ==
    IF listing = <<>> THEN P
    ELSE ProcessFile(ProcessAll(P, Front(listing)), Last(listing))

ProcessDirectory(K, listing) ==
    FinishDirectory(ProcessAll([K |-> K, seq |-> NoSeq, parsed |-> <<>>, status |-> "ok"],
                               listing))

\* A run has ended other than by a kill, and out tells how.
Ended == pc = "idle" /\ out.n = run.n /\ out.n > 0 /\ out.status # "killed"

\* The state file as a run that stored K leaves it.
Stored(K) == [exists |-> TRUE, bytes |-> Dump(K)]

\* The run started from the state file that the run before it stored after
\* processing the single file A, in a directory in which A is still the first
\* file.
ResumedAfterOne ==
    /\ run.n >= 2
    /\ run.last.status = "ok"
    /\ run.last.stored
    /\ Len(run.last.listing) = 1
    /\ run.listing # <<>>
    /\ run.listing[1] = run.last.listing[1]

\* What the run in progress, or just ended, made of the directory agrees with P.
AgreesWith(P) ==
    /\ pc = "store" =>
           /\ P.status = "ok"
           /\ logs = P.K
           /\ GetStates(logs.files) = GetStates(P.K.files)
    /\ Ended /\ out.status \in {"ok", "TypeError"} =>
           /\ P.status = "ok"
           /\ out.files = P.K.files
           /\ out.state = P.K.state
           /\ out.states = GetStates(P.K.files)
           /\ out.books = Books(P.K.files).books
           /\ (out.status = "TypeError") = Books(P.K.files).raised
    /\ Ended /\ out.status \notin {"ok", "TypeError"} => P.status = out.status

\* C1: Resumability.  Processing the single file A in a first run, storing the
\* checkpoint, then loading it and processing A's directory with further files
\* behind A in a second run gives the carried state, the files with their
\* per-state durations and the aggregated books (or the failure) that one run
\* over the whole directory from a fresh start gives.
C1_Resumable ==
    ResumedAfterOne /\ (pc = "store" \/ Ended) =>
        AgreesWith(ProcessDirectory(KindleLogs, run.listing))

C1_Witness ==
    /\ ResumedAfterOne
    /\ Ended
    /\ out.status = "ok"
    /\ Len(run.listing) = 3
    /\ Len(out.parsed) = 2
    /\ Len(out.files) = 3
    /\ DOMAIN out.books # {}

\* The run started from the state file the run before it stored, in a
\* directory that has not changed since.
RerunUnchanged ==
    /\ run.n >= 2
    /\ run.last.status = "ok"
    /\ run.last.stored
    /\ run.listing = run.last.listing

\* C2: Idempotence.  A second run from the stored checkpoint over an unchanged
\* directory skips every file (each name is <= the last processed filename of
\* the checkpoint), so it parses nothing, and it leaves the content of the
\* checkpoint, the carried state, the per-state durations and the aggregated
\* books as the first run left them.
C2_Idempotent ==
    RerunUnchanged =>
        /\ run.parsed = <<>>
        /\ \A i \in 1..Len(run.listing) :
               run.listing[i] <= Load(run.ckpt0.bytes).state.last_filename
        /\ ckpt = run.ckpt0
        /\ Ended =>
               /\ out.status = "ok"
               /\ out.parsed = <<>>
               /\ out.state = run.last.state
               /\ out.files = run.last.files
               /\ out.states = run.last.states
               /\ out.books = run.last.books

C2_Witness ==
    /\ RerunUnchanged
    /\ Ended
    /\ out.stored
    /\ Len(run.listing) = 3
    /\ DOMAIN out.books # {}

\* Whether a state file can be loaded.
Complete(file) == file.exists /\ ~LoadRaises(file.bytes)

\* C3: Checkpoint atomicity.  In every state of a run, a kill at any step and
\* a failed serialization included, the state file is either as the run found
\* it or the complete stream of the object the run has built, never a partial
\* stream; it is replaced at most once, after every file has been visited.
C3_CheckpointAtomic ==
    /\ ckpt.exists => Complete(ckpt)
    /\ \/ ckpt = run.ckpt0
       \/ /\ pc = "books"
          /\ run.stored
          /\ ckpt = Stored(logs)
       \/ /\ pc = "idle"
          /\ out.n = run.n
          /\ out.stored
          /\ ckpt = Stored([files |-> out.files, state |-> out.state])
    /\ pc \in {"files", "store", "dump", "dump2", "rename"} => ckpt = run.ckpt0 /\ ~run.stored
    /\ pc \in {"store", "dump", "dump2", "rename", "books"} => todo = <<>>

\* A run was killed while the temporary file held a partial stream, and the
\* state file of the run before it is intact.
C3_Witness ==
    /\ pc = "idle"
    /\ out.n = 2
    /\ out.status = "killed"
    /\ tmpfile.exists
    /\ LoadRaises(tmpfile.bytes)
    /\ Complete(ckpt)
    /\ ckpt = run.ckpt0
    /\ out.files # run.last.files

\* Line k of the file is one whose corrected time, recalculated from the
\* baseline that is active when it is read, lies more than MAX_FORWARDS_JUMP
\* after the last good time of that baseline.
NormalizationFatalAt(L0, lines, k) ==
    LET S == ParseLines(L0, SubSeq(lines, 1, k - 1))
        P == [S EXCEPT !.ts = ParseTimestamp(S, lines[k])]
        calculated_time == S.state.base_realtime + (P.ts - S.state.base_badtime)
    IN  /\ S.status = "ok"
        /\ P.ts >= 0
        /\ S.state.last_ts > -1
        /\ S.state.base_realtime # None
        /\ S.state.base_badtime # None
        /\ JumpBranch(P) \in {"none", "switch", "straggler"}
        /\ calculated_time - S.state.base_realtime > MAX_FORWARDS_JUMP

FatalLines(L) ==
    {k \in 1..Len(Content(L.filename)) :
        NormalizationFatalAt(NewLog(L.filename, L.initial_state), Content(L.filename), k)}

\* C9: Normalization fatal.  When a line's corrected time recalculated from the
\* active baseline lies more than the forward ceiling of 120 days after the
\* last good corrected time, the run ends at that line with a non-zero exit
\* status: the parser has read no line behind it, no later file has been
\* visited, and the state file is the one the run started from.
C9_NormalizationFatal ==
    Ended =>
        \A i \in 1..Len(out.files) :
            LET L == out.files[i]
                first == CHOOSE k \in FatalLines(L) : \A j \in FatalLines(L) : k <= j
            IN  FatalLines(L) # {} =>
                    /\ out.status = "exit"
                    /\ ExitCode(out.status) # 0
                    /\ i = Len(out.files)
                    /\ L.status = "exit"
                    /\ L.lineno = first
                    /\ L = ParseLines(NewLog(L.filename, L.initial_state),
                                      SubSeq(Content(L.filename), 1, first))
                    /\ \A j \in 1..Len(out.parsed) : out.parsed[j] < L.filename
                    /\ ~out.stored
                    /\ ckpt = run.ckpt0

\* A run from a stored checkpoint ended at line 3 of a file of four lines, with
\* another file behind it in the directory.
C9_Witness ==
    /\ Ended
    /\ run.n = 2
    /\ out.status = "exit"
    /\ FatalLines(Last(out.files)) = {3}
    /\ Len(Content(Last(out.files).filename)) = 4
    /\ \E i \in 1..Len(run.listing) : run.listing[i] > Last(out.files).filename
    /\ Complete(ckpt)
    /\ ckpt = run.ckpt0

NonDecreasing(evs) == \A i \in 1..(Len(evs) - 1) : evs[i][1] <= evs[i + 1][1]

\* C10: Cross-file backward jump is corpus-fatal.  When the merge of the books
\* by ASIN meets a file whose earliest event for a book is earlier than the
\* last event merged for that book, the run ends with a non-zero exit status
\* without having replaced the state file and without exposing books, and
\* every exposed event sequence is non-decreasing in timestamp.
C10_BackwardJumpAborts ==
    Ended =>
        /\ Books(out.files).backwards =>
               /\ ExitCode(out.status) # 0
               /\ ~out.stored
               /\ ckpt = run.ckpt0
               /\ out.books = EmptyDict
        /\ \A a \in DOMAIN out.books : NonDecreasing(out.books[a].events)

(***************************************************************************)
(* Files without a valid line, and files that fail.                        *)
(***************************************************************************)
\* No line read from the file being parsed had a timestamp.
NoValidLine == \A i \in 1..Len(hist) : hist[i].file = log.filename => hist[i].raw < 0

\* _ParseFile has returned or raised.
Returned == ~Reading

\* C11: Zero-valid-line file is a hard failure.  Whatever state the file was
\* handed, fresh or that of the file before it, a file none of whose lines has a
\* timestamp fails: it is not marked as parsed, it is not the last processed
\* filename, and it has no start, no end, no durations and no books.
C11_ZeroValidLinesFail ==
    Returned /\ NoValidLine =>
        /\ log.status = "ValueError"
        /\ ~log.parsed
        /\ log.state.last_filename # log.filename
        /\ log.start = None
        /\ log.end = None
        /\ log.state_durations = EmptyDict
        /\ log.books = EmptyDict

\* No line of the file has a timestamp.
Unstamped(name) ==
    \A i \in 1..Len(Content(name)) : Content(name)[i].wall = NoTimestamp

\* The run started cold, the first file of its listing has no valid line, and
\* the files behind it are files that a run without it processes to the end.
FirstFileFails ==
    /\ run.n > 0
    /\ LoadHistory(run.ckpt0) = KindleLogs
    /\ run.listing # <<>>
    /\ Unstamped(run.listing[1])
    /\ ProcessDirectory(KindleLogs, Tail(run.listing)).status = "ok"

\* C12: File-fatal isolation.  When a file fails for having no valid
\* timestamp, it is not in the list of files, the carried state is what it was
\* before the file, the files behind it are processed in order from that
\* state, and the run ends as a run without the file ends: the books are
\* aggregated and the state file is stored.
C12_FileFatalIsolated ==
    FirstFileFails =>
        /\ pc = "files" /\ Len(todo) < Len(run.listing) =>
               /\ \A i \in 1..Len(logs.files) : logs.files[i].filename # run.listing[1]
               /\ Len(todo) = Len(run.listing) - 1 => logs.state = NoState
        /\ Ended =>
               /\ out.status = "ok"
               /\ \A i \in 1..Len(out.files) : out.files[i].filename # run.listing[1]
               /\ AgreesWith(ProcessDirectory(KindleLogs, Tail(run.listing)))

(***************************************************************************)
(* The carried state.                                                      *)
(***************************************************************************)
\* The files of K that were processed successfully.
ParsedIn(K) == {i \in 1..Len(K.files) : K.files[i].parsed}

\* The carried state of K is the outgoing state of the file processed last.
CarriesMostRecent(K) ==
    \E i \in ParsedIn(K) :
        /\ K.files[i].state = K.state
        /\ \A j \in ParsedIn(K) : K.files[j].filename <= K.files[i].filename

\* The loop of ProcessDirectory takes a file that is neither covered by the
\* carried state nor a newer version of the file before it, and goes on.
HandoffStep ==
    /\ pc = "files"
    /\ todo # <<>>
    /\ ~AlreadyProcessed(logs, Head(todo))
    /\ ~NewerVersion(last_seq, Head(todo))
    /\ pc' = "files"

\* C13: State handoff.  A file that is processed (and does not supersede the
\* file before it, which is C14's case) starts from the carried state, which
\* is the outgoing state of the most recent successfully processed file of
\* the corpus and is absent, so that the file starts from the reset state,
\* exactly when no file was processed successfully before it; a file that
\* succeeds hands its outgoing state on, a file that fails leaves the carried
\* state alone, and no earlier file's stored state changes.
C13_StateHandoff ==
    [][HandoffStep =>
           LET new == Last(logs'.files)
           IN  /\ Len(logs'.files) = Len(logs.files) + 1
               /\ new.filename = Head(todo)
               /\ new.initial_state = logs.state
               /\ (logs.state = NoState) = (ParsedIn(logs) = {})
               /\ logs.state # NoState => CarriesMostRecent(logs)
               /\ logs.state = NoState /\ new.parsed =>
                      new = ParseFile([NewLog(Head(todo), NoState) EXCEPT
                                           !.state = ResetState], Content(Head(todo)))
               /\ new.parsed => new = ParseFile(NewLog(Head(todo), logs.state),
                                                Content(Head(todo)))
               /\ logs'.state = IF new.parsed THEN new.state ELSE logs.state
               /\ \A i \in 1..Len(logs.files) : logs'.files[i] = logs.files[i]
    ]_vars

\* A second file has been processed from the state the first left, in which a
\* book is held and a power state is current.
C13_Witness ==
    /\ pc = "files"
    /\ Len(logs.files) = 2
    /\ logs.files[1].parsed /\ logs.files[2].parsed
    /\ logs.files[2].initial_state = logs.files[1].state
    /\ logs.files[2].initial_state.book # NoneStr
    /\ logs.files[2].initial_state.power_state # NoneStr
    /\ logs.state = logs.files[2].state
    /\ logs.state # logs.files[1].state

\* The loop of ProcessDirectory takes a newer version of the file before it.
SupersedeStep ==
    /\ pc = "files"
    /\ todo # <<>>
    /\ ~AlreadyProcessed(logs, Head(todo))
    /\ NewerVersion(last_seq, Head(todo))
    /\ ~(pc' = "idle" /\ out'.status = "killed")

\* The name of the version that last_seq stands for.
SupersededName == SeqOf(Head(todo)) * NameBase + last_seq[2]

\* C14: Supersede retraction.  When a file with the sequence number of the
\* file F before it and a higher datestamp is met, F having been processed in
\* this run or being covered by the loaded checkpoint, F is removed from the
\* corpus and the newer file is processed from the state F itself started
\* from (no carried state when F was the first file); afterwards the corpus
\* holds the newer file and not F.
C14_SupersedeRetracts ==
    [][SupersedeStep =>
           LET at == CHOOSE i \in 1..Len(logs.files) :
                         logs.files[i].filename = SupersededName
               new == Last(logs'.files)
           IN  /\ \E i \in 1..Len(logs.files) : logs.files[i].filename = SupersededName
               /\ pc' = "files"
               /\ \A i \in 1..Len(logs'.files) : logs'.files[i].filename # SupersededName
               /\ new.filename = Head(todo)
               /\ new.initial_state = logs.files[at].initial_state
               /\ new.parsed
               /\ new = ParseFile(NewLog(Head(todo), logs.files[at].initial_state),
                                  Content(Head(todo)))
               /\ logs'.state = new.state
    ]_vars

(***************************************************************************)
(* State files that cannot be loaded.                                      *)
(***************************************************************************)
\* The run found a state file that exists and cannot be deserialized.
CorruptAtStart == run.n > 0 /\ run.ckpt0.exists /\ LoadRaises(run.ckpt0.bytes)

\* The run found no state file.
MissingAtStart == run.n > 0 /\ ~run.ckpt0.exists

\* C15: Corrupt checkpoint aborts.  A run that finds a state file it cannot
\* deserialize aborts: it processes no log file as a cold start, it ends with
\* a non-zero exit status and it leaves the state file as it found it.  A run
\* that finds no state file starts cold, and the missing file never ends it.
C15_CorruptCheckpointAborts ==
    /\ CorruptAtStart =>
           /\ run.parsed = <<>>
           /\ ckpt = run.ckpt0
           /\ Ended => ExitCode(out.status) # 0 /\ out.parsed = <<>> /\ ~out.stored
    /\ MissingAtStart /\ pc = "files" /\ todo = run.listing =>
           logs = KindleLogs

\* C16: A state file that is missing or cannot be read is a fresh start.  The
\* run begins with an empty KindleLogs object and no carried state, so its
\* first file starts from the reset state, and it ends as a run over the same
\* directory without any state file ends.
C16_UnreadableIsFresh ==
    MissingAtStart \/ CorruptAtStart =>
        /\ pc = "files" /\ todo = run.listing => logs = KindleLogs /\ last_seq = NoSeq
        /\ pc = "store" \/ Ended => AgreesWith(ProcessDirectory(KindleLogs, run.listing))
        /\ pc = "files" /\ logs.files # <<>> => logs.files[1].initial_state = NoState

\* A second run found the state file of the first damaged, processed two
\* files from scratch and stored a state file again.
C16_Witness ==
    /\ CorruptAtStart
    /\ Ended
    /\ run.n = 2
    /\ out.status = "ok"
    /\ out.stored
    /\ out.parsed = run.listing
    /\ Len(out.files) = 2
    /\ Complete(ckpt)

(***************************************************************************)
(* The baseline of a tracked jump.                                         *)
(***************************************************************************)
\* The line had a timestamp and _CheckJump took it for neither a timezone
\* switch nor a straggler nor a large jump.
PlainLine(e) == e.raw >= 0 /\ e.status = "ok" /\ e.branch \in {"none", "missing"}

\* C17: Baseline correction formula.  While a baseline is active, every valid
\* line that is not resolved as a timezone switch or straggler and does not
\* clear or re-base the baseline, the first line of a following file
\* included, gets the corrected timestamp base_realtime + (raw - base_badtime)
\* and leaves the baseline as it is.
C17_BaselineCorrects ==
    \A i \in 1..Len(hist) :
        LET e == hist[i]
        IN  BaselineActive(e.pre) /\ PlainLine(e) =>
                /\ e.ts = e.pre.base_realtime + (e.raw - e.pre.base_badtime)
                /\ e.post.base_realtime = e.pre.base_realtime
                /\ e.post.base_badtime = e.pre.base_badtime

(***************************************************************************)
(* Jumps at the thresholds: files of lines whose clock readings step by    *)
(* the least jump backwards that counts as large, by one second less, and  *)
(* by more than the forward ceiling.                                       *)
(***************************************************************************)
MaxJumpLines == 4

JumpSteps == {10, -MAX_BACKWARDS_JUMP, -MAX_BACKWARDS_JUMP - 1, FarJump, -FarJump}

ReadJumpLine == \E d \in JumpSteps : ReadLine(Other(clock + d), MaxJumpLines)

JumpNext ==
    \/ ReadJumpLine
    \/ ReadTimezoneLine
    \/ FinishFile
    \/ NextFile

SpecJump == PowerInit /\ [][JumpNext]_vars

\* _CheckJump ran on the line and resolved it neither as a timezone switch nor
\* as a straggler.
Unexplained(e) ==
    /\ e.status = "ok"
    /\ e.branch \notin {"unchecked", "fatal", "switch", "straggler"}

\* The line established the baseline (previous corrected time, own raw time)
\* and was given the previous line's corrected time.
Rebased(e) ==
    /\ e.post.base_realtime = e.pre.last_ts
    /\ e.post.base_badtime = e.raw
    /\ e.ts = e.pre.last_ts

\* Line i is the first line with a timestamp of its file, and lies more than
\* MAX_FILE_JUMP after the last line of the file before it.
FileGap(i) ==
    /\ \A j \in 1..(i - 1) : hist[j].file = hist[i].file => hist[j].raw < 0
    /\ hist[i].jump > MAX_FILE_JUMP

\* C18 as stated: with no baseline active and no timezone jump matching, a
\* delta of more than one hour backwards or more than MAX_FORWARDS_JUMP
\* forwards establishes the baseline, and a smaller delta establishes none.
C18_EstablishedBeyondOneHour ==
    \A i \in 1..Len(hist) :
        LET e == hist[i]
        IN  Unexplained(e) /\ ~BaselineActive(e.pre) =>
                IF e.jump < -HOUR \/ e.jump > MAX_FORWARDS_JUMP
                THEN Rebased(e)
                ELSE ~BaselineActive(e.post)

\* C18 as amended: with no baseline active and no timezone jump matching, a
\* delta of more than MAX_BACKWARDS_JUMP (3601 s) backwards or more than
\* MAX_FORWARDS_JUMP forwards establishes the baseline (last good time: the
\* previous line's corrected timestamp, bad time: this line's raw timestamp)
\* and the line gets the previous line's corrected timestamp, unless the line
\* is the first valid line of a file and the delta is a forward gap of more
\* than MAX_FILE_JUMP, which is taken for missing data: then, and for every
\* smaller delta, no baseline is established and the timestamp stays raw.
C18_EstablishedBeyondThreshold ==
    \A i \in 1..Len(hist) :
        LET e == hist[i]
        IN  /\ (e.branch = "missing") = (Unexplained(e) /\ FileGap(i))
            /\ Unexplained(e) /\ ~BaselineActive(e.pre) =>
                   IF ~FileGap(i)
                      /\ (e.jump < -MAX_BACKWARDS_JUMP \/ e.jump > MAX_FORWARDS_JUMP)
                   THEN Rebased(e)
                   ELSE ~BaselineActive(e.post) /\ e.ts = e.raw

\* A jump of 3601 s backwards established nothing and a jump of 3602 s
\* established the baseline.
C18_Witness ==
    /\ \E i \in 1..Len(hist) :
           /\ hist[i].jump = -MAX_BACKWARDS_JUMP
           /\ hist[i].branch = "none"
           /\ ~BaselineActive(hist[i].post)
    /\ \E i \in 1..Len(hist) :
           /\ hist[i].jump = -MAX_BACKWARDS_JUMP - 1
           /\ ~BaselineActive(hist[i].pre)
           /\ Rebased(hist[i])
           /\ hist[i].ts # hist[i].raw

\* The delta from the previous line is a large jump.
LargeJump(e) == e.jump < -MAX_BACKWARDS_JUMP \/ e.jump > MAX_FORWARDS_JUMP

\* C19: Baseline re-base.  With a baseline active, a further large jump whose
\* raw time is not a forward delta within MAX_FORWARDS_JUMP of the last good
\* corrected time re-bases the baseline: the new last good time is the
\* previous line's corrected timestamp, the new bad time is this line's raw
\* timestamp, and the line gets the previous line's corrected timestamp.
C19_Rebases ==
    \A i \in 1..Len(hist) :
        LET e == hist[i]
        IN  (/\ Unexplained(e)
             /\ BaselineActive(e.pre)
             /\ LargeJump(e)
             /\ ~BackInReality(e))
            => Rebased(e)

(***************************************************************************)
(* Stragglers.                                                             *)
(***************************************************************************)
\* The delta of the line matches the pending timezone jump.
PendingMatches(e) ==
    /\ Truthy(e.pre.next_tz_jump)
    /\ MatchWithFuzzByHour(e.pre.next_tz_jump, e.jump) # None

\* The timestamp of the line after the correction by the baseline, if any.
BaselineCorrected(e) ==
    IF BaselineActive(e.pre)
    THEN e.pre.base_realtime + (e.raw - e.pre.base_badtime)
    ELSE e.raw

\* _CheckJump ran on the line and returned, no pending jump matched, and the
\* delta is within the fuzz of the jump applied last or was taken for it.
LoggedInOldZone(e) ==
    /\ e.raw >= 0
    /\ e.pre.last_ts > -1
    /\ e.status = "ok"
    /\ e.branch # "fatal"
    /\ ~PendingMatches(e)
    /\ Truthy(e.pre.old_tz_jump)
    /\ \/ EqualWithFuzz(e.pre.old_tz_jump, e.jump, DEFAULT_FUZZ)
       \/ e.branch = "straggler"

MatchRefs(i) ==
    IF hist[i].branch \in {"unchecked", "fatal"} THEN {}
    ELSE {r \in {hist[i].pre.next_tz_jump, hist[i].pre.old_tz_jump} : Truthy(r)}

\* m is what the claim lets MatchWithFuzzByHour(ref, value) return
MatchesByHour(ref, value, m) ==
    /\ (m # None) <=> WithinFuzzByHour(ref, value)
    /\ (m # None) => /\ m \in {ref, ref - HOUR, ref + HOUR}
                     /\ EqualWithFuzz(m, value, DEFAULT_FUZZ)
    /\ EqualWithFuzz(ref, value, DEFAULT_FUZZ) => m = ref

\* C21: for every reference jump ref (positive or negative) and every value,
\* MatchWithFuzzByHour(ref, value) returns a match exactly when value is
\* within 300 s of ref, of ref - 3600 or of ref + 3600, the match is the
\* un-fuzzed one of the three that matched, ref itself when ref matched, and
\* there is no match otherwise.
C21_MatchByHour ==
    \A i \in 1..Len(hist) :
        \A ref \in MatchRefs(i) :
            MatchesByHour(ref, hist[i].jump, MatchWithFuzzByHour(ref, hist[i].jump))

(***************************************************************************)
(* The power tracker on one explicit transition line.                      *)
(***************************************************************************)
\* The step reads a line that the power tracker consumes.
PowerStep ==
    /\ hist' # hist
    /\ Last(hist').consumer = "power"

\* The state the tracker has recorded when the line reaches it and the time
\* it was entered: the first valid line of a file with no carried power state
\* has just recorded NO_DATA since its own timestamp.
RecordedState == IF Truthy(log.state.power_ts) THEN log.state.power_state ELSE "NO_DATA"

RecordedSince == IF Truthy(log.state.power_ts) THEN log.state.power_ts ELSE log'.start

\* What the step adds to the duration of state k.
Gained(k) ==
    (IF k \in DOMAIN log'.state_durations THEN log'.state_durations[k] ELSE 0)
    - (IF k \in DOMAIN log.state_durations THEN log.state_durations[k] ELSE 0)

\* The tracker ends in the line's 'to' since the line's timestamp.
MovedTo(e) ==
    /\ log'.state.power_state = e.line.b
    /\ log'.state.power_ts = e.ts
    /\ Last(log'.states) = <<e.ts, e.line.b>>

PlaceholderStep ==
    /\ PowerStep
    /\ Last(hist').line.a # RecordedState
    /\ RecordedSince = log'.start

\* C22: Placeholder correction.  On a transition line from -> to whose from
\* differs from the recorded state while that state's since-timestamp is the
\* file's start, no intermediate transition is recorded, the whole interval
\* from the file's start to the line accrues to from, nothing accrues to any
\* other label (the replaced one included), and the tracker moves to to.
C22_PlaceholderCorrected ==
    [][PlaceholderStep =>
          LET e == Last(hist')
          IN  /\ log'.states = Append(log.states, <<e.ts, e.line.b>>)
              /\ Gained(e.line.a) = e.ts - log'.start
              /\ \A k \in (DOMAIN log'.state_durations \cup {RecordedState}) \ {e.line.a} :
                     Gained(k) = 0
              /\ MovedTo(e)]_vars

\* A transition line corrected the guess of a file that began 7 s before it.
C22_Witness ==
    /\ hist # <<>>
    /\ log.lineno = prev.lineno + 1
    /\ Last(hist).consumer = "power"
    /\ prev.state.power_ts = prev.start
    /\ prev.state.power_state = "NO_DATA"
    /\ Last(hist).line.a # "NO_DATA"
    /\ log.ts = prev.start + 7
    /\ log.state.power_state = Last(hist).line.b

MissedStep ==
    /\ PowerStep
    /\ Last(hist').line.a # RecordedState
    /\ RecordedSince # log'.start

\* C23: Missed-observation midpoint.  On a transition line from -> to at time
\* t whose from differs from the recorded state S, entered at a time s that is
\* not the file's start, a transition into from is recorded at the midpoint
\* s + (t - s)/2 (the quotient of Python's division of integers) and then the
\* transition into to at t: S accrues the first half of the interval, from
\* the second half, the two amounts sum to t - s, and the tracker ends in to
\* since t.
C23_MissedObservationMidpoint ==
    [][MissedStep =>
          LET e == Last(hist')
              s == RecordedSince
              mid == s + ((e.ts - s) \div 2)
          IN  /\ log'.states = log.states \o <<<<mid, e.line.a>>, <<e.ts, e.line.b>>>>
              /\ Gained(RecordedState) = mid - s
              /\ Gained(e.line.a) = e.ts - mid
              /\ Gained(RecordedState) + Gained(e.line.a) = e.ts - s
              /\ \A k \in DOMAIN log'.state_durations \ {RecordedState, e.line.a} :
                     Gained(k) = 0
              /\ MovedTo(e)]_vars

\* A transition line 7 s after the state before it was entered, whose from
\* is another state: 3 s went to the state recorded, 4 s to from.
C23_Witness ==
    /\ hist # <<>>
    /\ log.lineno = prev.lineno + 1
    /\ Last(hist).consumer = "power"
    /\ Truthy(prev.start)
    /\ prev.state.power_ts # prev.start
    /\ Last(hist).line.a # prev.state.power_state
    /\ log.ts = prev.state.power_ts + 7
    /\ Len(log.states) = Len(prev.states) + 2
    /\ log.state_durations[prev.state.power_state] = 3
    /\ log.state_durations[Last(hist).line.a] = 4

(***************************************************************************)
(* The reboot tracker.                                                     *)
(***************************************************************************)
\* The i-th line passed the timestamp and start checks and matches pattern k.
Marker(i, k) == hist[i].accepted /\ k \in hist[i].line.kinds

\* None of the lines strictly between i and j is a reboot marker.
NoMarkerBetween(i, j) ==
    \A m \in (i + 1)..(j - 1) :
        ~(Marker(m, "linux") \/ Marker(m, "initboot") \/ Marker(m, "booted"))

\* None of the lines strictly between i and j is an explicit transition.
NoStateLineBetween(i, j) == \A m \in (i + 1)..(j - 1) : ~Marker(m, "state")

\* C24: Reboot sequencing.  After a kernel boot banner the tracker is in
\* KERNEL_BOOT; the init-scripts marker that follows it moves the tracker to
\* INITSCRIPTS and the boot-finished marker that follows that to ACTIVE,
\* whatever explicit state-change lines come in between.
C24_RebootSequence ==
    /\ \A i \in 1..Len(hist) :
           Marker(i, "linux") => hist[i].post.power_state = "KERNEL_BOOT"
    /\ \A i, j \in 1..Len(hist) :
           (i < j /\ Marker(i, "linux") /\ Marker(j, "initboot") /\ NoMarkerBetween(i, j))
               => hist[j].post.power_state = "INITSCRIPTS"
    /\ \A i, j, k \in 1..Len(hist) :
           (/\ i < j /\ j < k
            /\ Marker(i, "linux") /\ Marker(j, "initboot") /\ Marker(k, "booted")
            /\ NoMarkerBetween(i, j) /\ NoMarkerBetween(j, k))
               => hist[k].post.power_state = "ACTIVE"

\* C24 as the tracker does it: the banner always leads to KERNEL_BOOT; the
\* init-scripts and boot-finished markers act exactly when the state recorded
\* is KERNEL_BOOT or INITSCRIPTS, so the sequence KERNEL_BOOT, INITSCRIPTS,
\* ACTIVE is gone through when no explicit state-change line comes in
\* between, and a marker that finds another state is left to the other
\* trackers and changes no power state.
C24_RebootSequenceWhileBooting ==
    /\ \A i \in 1..Len(hist) :
           /\ Marker(i, "linux") => hist[i].post.power_state = "KERNEL_BOOT"
           /\ (Marker(i, "initboot") /\ hist[i].line.kinds = {"initboot"}) =>
                  IF hist[i].pre.power_state \in {"KERNEL_BOOT", "INITSCRIPTS"}
                  THEN hist[i].consumer = "reboot" /\ hist[i].post.power_state = "INITSCRIPTS"
                  ELSE hist[i].consumer = "none"
                       /\ hist[i].post.power_state \in {hist[i].pre.power_state, "NO_DATA"}
           /\ (Marker(i, "booted") /\ hist[i].line.kinds = {"booted"}) =>
                  IF hist[i].pre.power_state \in {"KERNEL_BOOT", "INITSCRIPTS"}
                  THEN hist[i].consumer = "reboot" /\ hist[i].post.power_state = "ACTIVE"
                  ELSE hist[i].consumer = "none"
                       /\ hist[i].post.power_state \in {hist[i].pre.power_state, "NO_DATA"}
    /\ \A i, j, k \in 1..Len(hist) :
           (/\ i < j /\ j < k
            /\ Marker(i, "linux") /\ Marker(j, "initboot") /\ Marker(k, "booted")
            /\ NoMarkerBetween(i, j) /\ NoMarkerBetween(j, k)
            /\ NoStateLineBetween(i, k))
               => /\ hist[i].post.power_state = "KERNEL_BOOT"
                  /\ hist[j].post.power_state = "INITSCRIPTS"
                  /\ hist[k].post.power_state = "ACTIVE"

\* A banner, the init-scripts marker and the boot-finished marker were read.
C24_Witness ==
    /\ Len(hist) = 3
    /\ Marker(1, "linux") /\ Marker(2, "initboot") /\ Marker(3, "booted")
    /\ hist[3].post.power_state = "ACTIVE"
    /\ hist[3].consumer = "reboot"

(***************************************************************************)
(* Dispatch: files of lines that match one or two of the line patterns.    *)
(* A line that matches two patterns carries the groups of the one that     *)
(* extracts any: the reboot patterns have no groups.                       *)
(***************************************************************************)
MaxDispatchLines == 3

DispatchKinds ==
    {{}, {"state"}, {"linux"}, {"initboot"}, {"booted"}, {"tz"}, {"book"}, {"lpr"},
     {"state", "linux"}, {"state", "initboot"}, {"linux", "tz"}, {"initboot", "tz"},
     {"linux", "book"}, {"booted", "lpr"}}

DispatchLine(wall, kinds) ==
    IF "state" \in kinds THEN Line(wall, kinds, "Active", "Screen Saver", PosEmpty, PosEmpty)
    ELSE IF "tz" \in kinds THEN Line(wall, kinds, "America/New_York", "", PosEmpty, PosEmpty)
    ELSE IF "book" \in kinds THEN Line(wall, kinds, "B1", "", 1000, 100)
    ELSE IF "lpr" \in kinds THEN Line(wall, kinds, "", "", PosEmpty, 150)
    ELSE Line(wall, kinds, "", "", PosEmpty, PosEmpty)

ReadDispatchLine ==
    \E k \in DispatchKinds : ReadLine(DispatchLine(clock + 7, k), MaxDispatchLines)

DispatchNext ==
    \/ ReadDispatchLine
    \/ FinishFile
    \/ NextFile

SpecDispatch == PowerInit /\ [][DispatchNext]_vars

\* The step reads a line that passes the timestamp and start checks.
AcceptStep ==
    /\ hist' # hist
    /\ Last(hist').accepted

\* Whether the pattern of each tracker matches the line in the state recorded.
RebootMatches(e) ==
    \/ "linux" \in e.line.kinds
    \/ /\ RecordedState \in {"KERNEL_BOOT", "INITSCRIPTS"}
       /\ e.line.kinds \cap {"initboot", "booted"} # {}

PowerMatches(e) == "state" \in e.line.kinds

TimezoneMatches(e) == "tz" \in e.line.kinds

BookMatches(e) == e.line.kinds \cap {"booklet", "book", "lpr"} # {}

\* The tracker named c is the only one that acts in the step: whatever the
\* other trackers keep is as it was.
OnlyActs(e, c) ==
    /\ c = "power" => MovedTo(e) /\ Len(log'.states) > Len(log.states)
    /\ c = "reboot" =>
           /\ log'.states = Append(log.states, <<e.ts, log'.state.power_state>>)
           /\ log'.state.power_state \in {"KERNEL_BOOT", "INITSCRIPTS", "ACTIVE"}
    /\ c \notin {"power", "reboot"} =>
           /\ log'.states = log.states
           /\ log'.state.power_state = RecordedState
           /\ log'.state_durations = log.state_durations
    /\ c = "timezone" => log'.state.next_tz = e.line.a
    /\ c # "timezone" =>
           /\ log'.state.next_tz = log.state.next_tz
           /\ log'.state.next_tz_jump = log.state.next_tz_jump
    /\ c # "book" =>
           /\ log'.books = log.books
           /\ log'.state.book = log.state.book

\* C25: Single dispatch.  Every accepted line is consumed by at most one
\* tracker: the first that matches in the order reboot, power state,
\* timezone, book; no other tracker changes any state for that line.
C25_DispatchRebootFirst ==
    [][AcceptStep =>
          LET e == Last(hist')
              c == IF RebootMatches(e) THEN "reboot"
                   ELSE IF PowerMatches(e) THEN "power"
                   ELSE IF TimezoneMatches(e) THEN "timezone"
                   ELSE IF BookMatches(e) THEN "book"
                   ELSE "none"
          IN  e.consumer = c /\ OnlyActs(e, c)]_vars

\* C25 in the order of the code: the first tracker that matches in the order
\* power state, reboot, timezone, book consumes the line, and no other
\* tracker changes any state for that line.
C25_DispatchPowerFirst ==
    [][AcceptStep =>
          LET e == Last(hist')
              c == IF PowerMatches(e) THEN "power"
                   ELSE IF RebootMatches(e) THEN "reboot"
                   ELSE IF TimezoneMatches(e) THEN "timezone"
                   ELSE IF BookMatches(e) THEN "book"
                   ELSE "none"
          IN  e.consumer = c /\ OnlyActs(e, c)]_vars

\* A line that is both an explicit transition and a kernel boot banner went
\* to the power tracker, and one that is both a banner and a timezone change
\* to the reboot tracker.
C25_Witness ==
    \E i, j \in 1..Len(hist) :
        /\ hist[i].line.kinds = {"state", "linux"}
        /\ hist[i].consumer = "power"
        /\ hist[i].post.power_state = "Screen Saver"
        /\ hist[j].line.kinds = {"linux", "tz"}
        /\ hist[j].consumer = "reboot"
        /\ hist[j].post.next_tz = hist[j].pre.next_tz

(***************************************************************************)
(* Files written while the clock of the device stands at the epoch: the    *)
(* timestamps of their lines are 0 and a few seconds more.                 *)
(***************************************************************************)
MaxEpochLines == 3

EpochSteps == {0, 30, -10}

EpochInit ==
    /\ log = NewLog(1, NoState)
    /\ prev = NewLog(1, NoState)
    /\ hist = <<>>
    /\ clock = 0
    /\ ReadsIdle
    /\ MainIdle

ReadEpochLine ==
    \E d \in EpochSteps :
        /\ clock + d >= 0
        /\ \/ ReadLine(Other(clock + d), MaxEpochLines)
           \/ \E t \in Transitions : ReadLine(StateLine(clock + d, t[1], t[2]), MaxEpochLines)

EpochNext ==
    \/ ReadEpochLine
    \/ FinishFile
    \/ NextFile

SpecEpoch == EpochInit /\ [][EpochNext]_vars

(***************************************************************************)
(* The start check of _ParseFile.                                          *)
(***************************************************************************)
\* The step reads a line with a timestamp that _CheckJump lets through and
\* whose corrected timestamp lies before the established start of the file.
EarlyStep ==
    /\ hist' # hist
    /\ Last(hist').raw >= 0
    /\ Last(hist').status = "ok"
    /\ Truthy(log.start)
    /\ Last(hist').ts < log.start

\* C26: Lines before file start are rejected.  A line whose corrected
\* timestamp is earlier than the file's established start is skipped: no
\* tracker gets it (the power states, the durations, the books and the
\* pending timezone change stay as they are, unless _CheckJump itself has
\* just switched the zone) and the last processed timestamp stays; every line
\* of a file that reaches a tracker has a corrected timestamp >= the file's
\* start, and the end of a parsed file is >= its start.
C26_EarlyLinesRejected ==
    [][/\ EarlyStep =>
              LET e == Last(hist')
              IN  /\ ~e.accepted
                  /\ e.consumer = "none"
                  /\ log'.state.last_ts = log.state.last_ts
                  /\ log'.start = log.start
                  /\ log'.states = log.states
                  /\ log'.state_durations = log.state_durations
                  /\ log'.state.power_state = log.state.power_state
                  /\ log'.state.power_ts = log.state.power_ts
                  /\ log'.books = log.books
                  /\ log'.state.book = log.state.book
                  /\ e.branch # "switch" => log'.state.next_tz = log.state.next_tz
       /\ \A i \in 1..Len(hist') :
              (hist'[i].file = log'.filename /\ hist'[i].accepted)
                  => hist'[i].ts >= log'.start
       /\ log'.parsed => log'.end >= log'.start]_vars

(***************************************************************************)
(* The event list of one book of one file as the book tracker writes it.   *)
(* A book that was put down is picked up next; a book in hand is opened,   *)
(* closed or put down; the first event of a file is of any kind, since the *)
(* book in hand is carried from the file before.                           *)
(***************************************************************************)
MaxCoalesceEvents == 3

CoalesceSteps == {0, 1, 14, 15, -14}

CoalescePositions == {PosEmpty, 120}

\* The methods of KindleBook by the kind of event they record.
Observe(evs, kind, ts, position) ==
    CASE kind = PICK_UP -> PickUp(evs, ts, position)
      [] kind = PUT_DOWN -> PutDown(evs, ts)
      [] kind = OPEN -> Open(evs, ts, position)
      [] kind = CLOSE -> Close(evs, ts, position)

\* The tracker records an event of the kind for a line stamped ts, at or
\* after the start of the file.
ObserveEvent(kind) ==
    \E d \in CoalesceSteps, p \in CoalescePositions :
        LET ts == IF events = <<>> THEN T0 ELSE Last(events)[1] + d
        IN  /\ ts >= T0
            /\ Len(Observe(events, kind, ts, p)) <= MaxCoalesceEvents
            /\ events' = Observe(events, kind, ts, p)
            /\ clock' = ts
            /\ UNCHANGED <<log, prev, hist, mainVars>>

InHand == IF events = <<>> THEN TRUE ELSE Last(events)[2] # PUT_DOWN

OnShelf == IF events = <<>> THEN TRUE ELSE Last(events)[2] = PUT_DOWN

ObservePickUp == OnShelf /\ ObserveEvent(PICK_UP)

ObservePutDown == InHand /\ ObserveEvent(PUT_DOWN)

ObserveOpen == InHand /\ ObserveEvent(OPEN)

ObserveClose == InHand /\ ObserveEvent(CLOSE)

CoalesceNext ==
    \/ ObservePickUp
    \/ ObservePutDown
    \/ ObserveOpen
    \/ ObserveClose

SpecCoalesce == NoEvents /\ [][CoalesceNext]_vars

\* The step records an event of kind k at ts with the position text p for a
\* book that has events already.
Observes(k, ts, p) ==
    /\ events # <<>>
    /\ clock' = ts
    /\ events' = Observe(events, k, ts, p)

\* The step has merged the event into the last stored one: the list is as
\* long as before, its last entry has the earlier of the two timestamps, the
\* new kind, and the new position or, when none is supplied, the stored one.
MergedInto(k, ts, p) ==
    /\ Len(events') = Len(events)
    /\ Front(events') = Front(events)
    /\ Last(events') = <<Min(Last(events)[1], ts), k,
                         IF p = PosEmpty \/ k = PUT_DOWN THEN Last(events)[3] ELSE p>>

\* The step has appended the event.
Appended(k, ts) ==
    /\ Len(events') = Len(events) + 1
    /\ Front(events') = events
    /\ Last(events')[1] = ts
    /\ Last(events')[2] = k

\* C27: Coalescing (a).  An event of any kind whose timestamp is within 1
\* second (less than 1 second away, as EqualWithFuzz measures it) of the
\* book's most recent stored event is merged into that event: the list does
\* not grow, the entry keeps the earlier timestamp, takes the new kind and
\* keeps the stored position when the new event supplies none.
C27_CoalesceWithinSecond ==
    [][\A k \in EventKinds, p \in CoalescePositions :
           (/\ Observes(k, clock', p)
            /\ EqualWithFuzz(Last(events)[1], clock', 1))
               => MergedInto(k, clock', p)]_vars

\* A PUT_DOWN, which has no position of its own, was merged into an event
\* of its second that had the position 120.
C27_Witness ==
    /\ Len(events) = 1
    /\ events[1] = <<T0, PUT_DOWN, 120>>
    /\ clock = T0

\* C28: Coalescing (b).  When the most recent stored event of a book is a
\* CLOSE, an event of any kind whose timestamp is within 15 seconds of it is
\* merged into that event.
C28_CoalesceAfterClose ==
    [][\A k \in EventKinds, p \in CoalescePositions :
           (/\ Observes(k, clock', p)
            /\ Last(events)[2] = CLOSE
            /\ EqualWithFuzz(Last(events)[1], clock', 15))
               => MergedInto(k, clock', p)]_vars

\* C28 as PutDown does it: after a CLOSE, a PUT_DOWN less than 15 seconds
\* away is merged into it; an event of another kind is merged only in the
\* same second and appended otherwise, and so is a PUT_DOWN 15 seconds away
\* or more or after an event that is not a CLOSE.
C28_PutDownAfterClose ==
    [][\A k \in EventKinds, p \in CoalescePositions :
           Observes(k, clock', p) =>
               LET last == Last(events)
                   ts == clock'
                   wide == k = PUT_DOWN /\ last[2] = CLOSE /\ EqualWithFuzz(last[1], ts, 15)
               IN  IF wide \/ EqualWithFuzz(last[1], ts, 1)
                   THEN MergedInto(k, ts, p)
                   ELSE Appended(k, ts)]_vars

\* A PUT_DOWN 14 s after a CLOSE became one event with it; the book was
\* picked up and closed again, and an OPEN 14 s after that CLOSE became an
\* event of its own.
C28_Witness ==
    /\ Len(events) = 3
    /\ events[1] = <<T0, PUT_DOWN, 120>>
    /\ events[2] = <<T0 + 15, CLOSE, 120>>
    /\ events[3] = <<T0 + 29, OPEN, 120>>
    /\ clock = T0 + 29

(***************************************************************************)
(* Continuation: reads applied to books that are picked up and put down,   *)
(* a minute, two minutes, five or eleven minutes after the event before.   *)
(***************************************************************************)
MaxSessionEvents == 4

SessionMoves == {<<60, 150>>, <<120, 100>>, <<300, 150>>, <<300, 300>>, <<660, 100>>}

RecordSessionEvent ==
    /\ Len(events) < MaxSessionEvents
    /\ \E k \in {PICK_UP, PUT_DOWN}, m \in SessionMoves :
           \/ /\ events = <<>>
              /\ events' = <<<<T0, k, m[2]>>>>
           \/ /\ events # <<>>
              /\ events' = Append(events, <<Last(events)[1] + m[1], k, m[2]>>)
    /\ UNCHANGED <<lineVars, mainVars>>

SpecSessions == NoEvents /\ [][RecordSessionEvent]_vars

RECURSIVE TotalReadTime(_)
TotalReadTime(rv) == IF rv = <<>> THEN 0 ELSE TotalReadTime(Front(rv)) + Last(rv)[5]

\* The condition of C29 for merging the accepted candidate c into the list rv.
Continues(rv, c) ==
    /\ rv # <<>>
    /\ \/ Last(rv)[4] = c[2]
       \/ c[1] - Last(rv)[3] < 2 * 60
    /\ c[4] >= c[2]

\* after is rv with the accepted candidate c merged or appended as C29 says.
MergedOrAppended(rv, c, after) ==
    /\ IF Continues(rv, c)
       THEN /\ Len(after) = Len(rv)
            /\ Front(after) = Front(rv)
            /\ Last(after) = <<Last(rv)[1], Min(Last(rv)[2], c[2]), c[3], c[4],
                               Last(rv)[5] + c[5]>>
       ELSE after = Append(rv, c)
    /\ TotalReadTime(after) = TotalReadTime(rv) + c[5]

\* C29: Continuation merge.  The candidate of the latest PUT_DOWN, when it is
\* accepted, is merged into the session accepted before it exactly when it
\* starts at the position where that session ended or less than 2 minutes
\* after that session's end, and does not move backward; the merged session
\* has the start time of the session before, the smaller of the two start
\* positions, the end time and position of the candidate and the sum of the
\* read times; any other accepted candidate is appended; the total read time
\* of the list grows by the candidate's.
C29_ContinuationMerge ==
    LET S == SortEvents(events)
        acc == ReadsFold(Front(S))
        fin == ReadsStep(acc, Last(S))
        c == PutDownCandidate(acc, Last(S))
    IN  (/\ events # <<>>
         /\ Last(S)[2] = PUT_DOWN
         /\ ~fin.raised
         /\ ~Discarded(c))
            => MergedOrAppended(acc.rv, c, fin.rv)

\* A session of five minutes from 100 to 300 and one that began a minute
\* later at 150 were merged into one of ten minutes from 100.
C29_Witness ==
    /\ Len(events) = 4
    /\ events[4][2] = PUT_DOWN
    /\ events[3] = <<T0 + 360, PICK_UP, 150>>
    /\ Reads(events) = <<<<T0, 100, T0 + 660, 300, 600>>>>

(***************************************************************************)
(* Accrual: reads applied to events five minutes or ten seconds apart,     *)
(* with and without a position.                                            *)
(***************************************************************************)
AccrualMoves == {<<300, 150>>, <<10, None>>, <<300, 300>>}

RecordAccrualEvent == RecordEvent({T0}, AccrualMoves)

SpecAccrual == NoEvents /\ [][RecordAccrualEvent]_vars

\* The fold has an open time to measure from when it comes to the last event,
\* which is a CLOSE or a PUT_DOWN.
ClosingEvent ==
    /\ events # <<>>
    /\ Last(SortEvents(events))[2] \in {CLOSE, PUT_DOWN}
    /\ ~ReadsFold(Front(SortEvents(events))).raised
    /\ ReadsFold(Front(SortEvents(events))).start # None

\* C30: Read-time accrual.  Every CLOSE and every PUT_DOWN adds (event time -
\* last open time) to the read time of the current session and takes over
\* the position of the event when it has one; PUT_DOWN also hands the
\* candidate (start, startPos, end, endPos, readSeconds) to the acceptance
\* policy and resets the candidate, so that nothing is left of it.
C30_EveryCloseAccrues ==
    ClosingEvent =>
        LET S == SortEvents(events)
            acc == ReadsFold(Front(S))
            fin == ReadsStep(acc, Last(S))
            ev == Last(S)
            time == acc.read_time + (ev[1] - acc.start)
            pos == IF ev[3] # None THEN ev[3] ELSE acc.latestpos
        IN  /\ ev[2] = CLOSE => fin.read_time = time /\ fin.latestpos = pos
            /\ ev[2] = PUT_DOWN =>
                   /\ fin.rv = AppendRead(acc.rv, <<acc.first, acc.firstpos, ev[1], pos, time>>)
                   /\ fin.first = None /\ fin.start = None /\ fin.read_time = 0
                   /\ fin.firstpos = None /\ fin.latestpos = None

\* C30 as the fold does it: a CLOSE or PUT_DOWN adds (event time - last open
\* time) only when the event before it is a PICK_UP or an OPEN, and nothing
\* otherwise; it takes over the position of the event when it has one;
\* PUT_DOWN hands over the candidate and resets its start time, the open
\* time and the read time, while the start position and the latest position
\* stay until the next PICK_UP.
C30_CloseAfterOpenAccrues ==
    ClosingEvent =>
        LET S == SortEvents(events)
            acc == ReadsFold(Front(S))
            fin == ReadsStep(acc, Last(S))
            ev == Last(S)
            time == IF Front(S) # <<>> /\ Last(Front(S))[2] \in {PICK_UP, OPEN}
                    THEN acc.read_time + (ev[1] - acc.start)
                    ELSE acc.read_time
            pos == IF Truthy(ev[3]) THEN ev[3] ELSE acc.latestpos
        IN  /\ ev[2] = CLOSE =>
                   /\ fin.read_time = time /\ fin.latestpos = pos
                   /\ fin.rv = acc.rv /\ fin.first = acc.first /\ fin.start = acc.start
                   /\ fin.firstpos = acc.firstpos
            /\ ev[2] = PUT_DOWN =>
                   /\ fin.rv = AppendRead(acc.rv, <<acc.first, acc.firstpos, ev[1], pos, time>>)
                   /\ fin.first = None /\ fin.start = None /\ fin.read_time = 0
                   /\ fin.firstpos = acc.firstpos /\ fin.latestpos = pos

\* Picked up at 150, closed after 5 minutes, closed again 10 s later without a
\* position and put down 5 minutes after that at 300: a session of 5 minutes.
C30_Witness ==
    /\ Len(events) = 4
    /\ events[1] = <<T0, PICK_UP, 150>>
    /\ events[2] = <<T0 + 300, CLOSE, 150>>
    /\ events[3] = <<T0 + 310, CLOSE, None>>
    /\ events[4] = <<T0 + 610, PUT_DOWN, 300>>
    /\ Reads(events) = <<<<T0, 150, T0 + 610, 300, 300>>>>

(***************************************************************************)
(* The session still open at the end of the events.                        *)
(***************************************************************************)
\* The events end with a session that was picked up and not put down.
PickedUpAtEnd ==
    \E i \in 1..Len(events) :
        /\ SortEvents(events)[i][2] = PICK_UP
        /\ \A j \in (i + 1)..Len(events) : SortEvents(events)[j][2] # PUT_DOWN

\* C31: Trailing open session.  When the events of a book end with a session
\* that was picked up and has no PUT_DOWN, that session is the last entry of
\* the derived list, with no end time.
C31_TrailingEmitted ==
    (PickedUpAtEnd /\ ~ReadsRaises(events)) =>
        LET fin == ReadsFold(SortEvents(events))
            r == Reads(events)
        IN  /\ r # <<>>
            /\ Last(r)[3] = None
            /\ Last(r)[4] = fin.latestpos

\* C31 as reads does it: the session still open is handed to the acceptance
\* policy with no end time; when its read time is under the thresholds it is
\* dropped and the list is as it was, otherwise it is appended or merged
\* into the session before it, and the last entry of the list has no end
\* time and the latest position.
C31_TrailingOffered ==
    (PickedUpAtEnd /\ ~ReadsRaises(events)) =>
        LET fin == ReadsFold(SortEvents(events))
            cand == <<fin.first, fin.firstpos, None, fin.latestpos, fin.read_time>>
            r == Reads(events)
        IN  IF Discarded(cand) THEN r = fin.rv
            ELSE /\ r # <<>>
                 /\ Last(r)[3] = None
                 /\ Last(r)[4] = fin.latestpos
                 /\ MergedOrAppended(fin.rv, cand, r)

\* A book was picked up and closed 5 minutes later, and not put down: one
\* session without an end.
C31_Witness ==
    /\ Len(events) = 2
    /\ events[1] = <<T0, PICK_UP, 150>>
    /\ events[2] = <<T0 + 300, CLOSE, 300>>
    /\ Reads(events) = <<<<T0, 150, None, 300, 300>>>>

(***************************************************************************)
(* Books: files of book-info, position-sync and booklet-switch lines, in   *)
(* the same second or a few seconds apart.  The orchestrator keeps the     *)
(* files it has parsed.                                                    *)
(***************************************************************************)
MaxBookLines == 3

BookSteps == {0, 7}

\* The book-info lines: a book with a position, a book without one, and a
\* line whose asin group is empty.
BookInfoLines(wall) ==
    {BookLine(wall, "B1", 1000, 100), BookLine(wall, "B2", 500, PosEmpty),
     BookLine(wall, "", PosEmpty, 120)}

BookletSwitches == {<<"Home", "Bookworm">>, <<"Bookworm", "Home">>}

ReadBookInfoLine ==
    \E d \in BookSteps : \E l \in BookInfoLines(clock + d) : ReadLine(l, MaxBookLines)

ReadPositionLine == \E d \in BookSteps : ReadLine(LprLine(clock + d, 150), MaxBookLines)

ReadBookletLine ==
    \E d \in BookSteps, s \in BookletSwitches :
        ReadLine(Line(clock + d, {"booklet"}, s[1], s[2], PosEmpty, PosEmpty), MaxBookLines)

\* The hand-off as it would be if the next file started without a state.
KeepFileFresh ==
    /\ log.parsed
    /\ log.filename < MaxLogFiles
    /\ logs' = [files |-> Append(logs.files, log), state |-> log.state]
    /\ log' = NewLog(log.filename + 1, NoState)
    /\ prev' = log
    /\ UNCHANGED <<hist, clock, readsVars, dir, ckpt, tmpfile, pc, todo, last_seq, run, out>>

\* self.files.append(log); self.state = log.state, and the next file starts
\* from that state.
KeepFile ==
    /\ log.parsed
    /\ log.filename < MaxLogFiles
    /\ logs' = [files |-> Append(logs.files, log), state |-> log.state]
    /\ log' = NewLog(log.filename + 1, log.state)
    /\ prev' = log
    /\ UNCHANGED <<hist, clock, readsVars, dir, ckpt, tmpfile, pc, todo, last_seq, run, out>>

BooksNext ==
    \/ ReadBookInfoLine
    \/ ReadPositionLine
    \/ ReadBookletLine
    \/ FinishFile
    \/ KeepFile

SpecBooks == PowerInit /\ [][BooksNext]_vars

\* The events a file has recorded for a book.
EventsOf(L, asin) == IF asin \in DOMAIN L.books THEN L.books[asin].events ELSE <<>>

\* The position the last event of a book has after an observation that
\* supplies position p: p when there is one, else the one it had.
PositionAfter(o, p) ==
    IF p # PosEmpty THEN p ELSE IF o = <<>> THEN None ELSE Last(o)[3]

\* The list o of events has received an event of kind k observed at ts with
\* position p, and has become n: the event was appended, or merged into the
\* last one, which keeps the earlier of the two timestamps.
Received(o, n, k, ts, p) ==
    /\ n # <<>>
    /\ Last(n)[2] = k
    /\ Last(n)[3] = PositionAfter(o, p)
    /\ IF Len(n) = Len(o)
       THEN /\ Front(n) = Front(o)
            /\ Last(n)[1] = Min(Last(o)[1], ts)
            /\ Abs(Last(o)[1] - ts) < 15
       ELSE /\ Front(n) = o
            /\ Last(n)[1] = ts

\* The step reads a book-info line that announces an asin, and the book
\* tracker consumes it.
BookInfoStep ==
    /\ AcceptStep
    /\ Last(hist').consumer = "book"
    /\ "book" \in Last(hist').line.kinds
    /\ Last(hist').line.a # ""

\* C32: Book hand-off.  On a book-info line that announces an asin: when it
\* differs from the held book, the old book receives a PUT_DOWN and the new
\* one a PICK_UP at the corrected timestamp of the line, and the new asin
\* becomes the held book; when it is the held book, that book receives an
\* OPEN with the position of the line and stays the held book; when no book
\* is held, the announced book receives a PICK_UP and becomes the held book.
C32_BookHandOff ==
    [][BookInfoStep =>
        LET e == Last(hist')
            asin == e.line.a
            held == log.state.book
        IN  IF ~HasBook(log)
            THEN /\ Received(EventsOf(log, asin), EventsOf(log', asin), PICK_UP, e.ts, e.line.pos)
                 /\ log'.state.book = asin
            ELSE IF held # asin
            THEN /\ Received(EventsOf(log, held), EventsOf(log', held), PUT_DOWN, e.ts, PosEmpty)
                 /\ Received(EventsOf(log, asin), EventsOf(log', asin), PICK_UP, e.ts, e.line.pos)
                 /\ log'.state.book = asin
            ELSE /\ Received(EventsOf(log, asin), EventsOf(log', asin), OPEN, e.ts, e.line.pos)
                 /\ log'.state.book = held]_vars

\* A file in which B1 was picked up and B2 announced 7 s later: B1 has been
\* put down and B2 picked up at the time of the second line, and B2 is held.
C32_Witness ==
    /\ Len(hist) = 2
    /\ hist[1].line.a = "B1" /\ hist[2].line.a = "B2"
    /\ "book" \in hist[1].line.kinds /\ "book" \in hist[2].line.kinds
    /\ hist[2].ts = hist[1].ts + 7
    /\ EventsOf(log, "B1") = <<<<hist[1].ts, PICK_UP, 100>>, <<hist[2].ts, PUT_DOWN, 100>>>>
    /\ EventsOf(log, "B2") = <<<<hist[2].ts, PICK_UP, None>>>>
    /\ log.state.book = "B2"

(***************************************************************************)
(* Conservation of the time accounted to the power states.                 *)
(***************************************************************************)
\* The sum of the durations of a dictionary of states.
RECURSIVE TotalDuration(_)
TotalDuration(d) ==
    IF DOMAIN d = {} THEN 0
    ELSE LET k == CHOOSE x \in DOMAIN d : TRUE
         IN  d[k] + TotalDuration([x \in DOMAIN d \ {k} |-> d[x]])

\* The time since which the power state handed to a file has lasted: the
\* start of the file when no state was handed to it.
IncomingSince(L) ==
    IF L.initial_state = NoState THEN L.start ELSE L.initial_state.power_ts

\* C33: Conservation of accounted time.  The durations a parsed file has
\* accrued sum to its end minus the since-timestamp of the power state handed
\* to it (its start when none was), and the power state it hands on has lasted
\* since its end.
C33_TimeConserved ==
    log.parsed =>
        /\ TotalDuration(log.state_durations) = log.end - IncomingSince(log)
        /\ log.state.power_ts = log.end

(***************************************************************************)
(* The order of the carried time and the baseline.                         *)
(***************************************************************************)
\* C34: Baseline ordering.  Whenever _CheckJump runs on a line while a
\* baseline is tracked, the carried last corrected time is not earlier than
\* the last good time of the baseline, so that _CheckJump never aborts on
\* last_ts - base_realtime < 0.
C34_BaselineOrdered ==
    \A i \in 1..Len(hist) :
        (hist[i].branch # "unchecked" /\ hist[i].pre.base_badtime # None) =>
            /\ hist[i].pre.last_ts >= hist[i].pre.base_realtime
            /\ hist[i].branch # "fatal"

(***************************************************************************)
(* How far the corrected time can go back from one line to the next.       *)
(***************************************************************************)
\* C35: Bounded regression.  The corrected timestamp of a line the trackers
\* are given is never more than MAX_BACKWARDS_JUMP seconds earlier than the
\* corrected timestamp of the line they were given before it.
C35_BoundedRegression ==
    \A i \in 1..Len(hist) :
        (hist[i].accepted /\ hist[i].pre.last_ts > -1) =>
            hist[i].ts >= hist[i].pre.last_ts - MAX_BACKWARDS_JUMP

(***************************************************************************)
(* The sign of the durations.                                              *)
(***************************************************************************)
\* C36: Non-negative durations.  After any sequence of lines and files every
\* duration a file has accrued for a state is >= 0, and every transition is
\* made at a time that is not before the time of the transition before it.
C36_DurationsNonNegative ==
    /\ \A k \in DOMAIN log.state_durations : log.state_durations[k] >= 0
    /\ \A i \in 2..Len(log.states) : log.states[i][1] >= log.states[i - 1][1]

(***************************************************************************)
(* Missing data between files.                                             *)
(***************************************************************************)
\* The step reads the first valid line of a file that was handed a state, the
\* line is stamped more than MAX_FILE_JUMP after the carried last corrected
\* time, and _CheckJump resolves it neither as a timezone switch nor as a
\* straggler.
GapStep ==
    /\ AcceptStep
    /\ ~Truthy(log.start)
    /\ log.state.last_ts > -1
    /\ Last(hist').raw - log.state.last_ts > MAX_FILE_JUMP
    /\ Last(hist').branch \notin {"switch", "straggler"}

\* C37: Missing data between files.  The gap before such a line is missing
\* data: the power state becomes NO_DATA as of the carried last timestamp,
\* the gap accrues to NO_DATA, the state at the line is NO_DATA, and the line
\* establishes no baseline.
C37_GapIsMissingData ==
    [][GapStep =>
        LET e == Last(hist')
            carried == log.state.last_ts
            gap == e.raw - carried
            before == IF log.state.power_state = "NO_DATA"
                      THEN carried - log.state.power_ts ELSE 0
        IN  /\ e.branch = "missing"
            /\ Len(log'.states) >= 2
            /\ log'.states[1] = <<carried, "NO_DATA">>
            /\ log'.states[2] = <<e.ts, "NO_DATA">>
            /\ e.ts = e.raw
            /\ "NO_DATA" \in DOMAIN log'.state_durations
            /\ log'.state_durations["NO_DATA"] = before + gap
            /\ e.post.base_realtime = e.pre.base_realtime
            /\ e.post.base_badtime = e.pre.base_badtime]_vars

(***************************************************************************)
(* The book in hand.                                                       *)
(***************************************************************************)
\* The book tracker was given the line as a book-info line with an asin.
Announces(e) ==
    /\ e.accepted
    /\ e.consumer = "book"
    /\ "book" \in e.line.kinds
    /\ e.line.a # ""

\* The asin of the latest book-info line, none when there was no such line.
LastAnnounced ==
    LET A == SelectSeq(hist, Announces)
    IN  IF A = <<>> THEN NoneStr ELSE Last(A).line.a

\* The events of every book, over the files parsed so far and the file being
\* parsed, in the order of the files.
EventsSoFar == MergeBooks(Append(logs.files, log))

MaxAggregateLines == 3

MaxEvaluations == 2

AggregateSteps == {0, 300}

AggregateLines(wall) ==
    {BookLine(wall, "B1", 1000, 100), BookLine(wall, "B2", 500, 200), LprLine(wall, 150)}

ReadAggregateLine ==
    \E d \in AggregateSteps : \E l \in AggregateLines(clock + d) :
        ReadLine(l, MaxAggregateLines)

\* The first of the files that has a book object for the asin: the object
\* that books[book.asin] = book puts into the dictionary.
FirstWith(files, asin) ==
    CHOOSE i \in 1..Len(files) :
        /\ asin \in DOMAIN files[i].books
        /\ \A j \in 1..(i - 1) : asin \notin DOMAIN files[j].books

\* The files after the first loop of the books property: the object of the
\* first file with a book has been extended by the events of the later
\* files, whose lists events.sort() has sorted in place.
AfterBooks(files) ==
    [i \in 1..Len(files) |->
        [files[i] EXCEPT !.books =
            [a \in DOMAIN files[i].books |->
                [files[i].books[a] EXCEPT !.events =
                    IF i = FirstWith(files, a)
                    THEN MergeBooks(files)[a].events
                    ELSE SortEvents(files[i].books[a].events)]]]]

\* What an evaluation of the books property returns: the events and the
\* sessions of each book it keeps.
BooksReturned(files) ==
    LET B == Books(files)
    IN  [a \in DOMAIN B.books |->
            [events |-> B.books[a].events, reads |-> Reads(B.books[a].events)]]

\* logs.books is evaluated on the orchestrator that holds the files parsed
\* so far.
EvaluateBooks ==
    /\ log.parsed
    /\ out.n < MaxEvaluations
    /\ logs' = [logs EXCEPT !.files = Front(AfterBooks(Append(logs.files, log)))]
    /\ log' = Last(AfterBooks(Append(logs.files, log)))
    /\ out' = [out EXCEPT !.n = out.n + 1,
                          !.status = IF Books(Append(logs.files, log)).raised
                                     THEN "TypeError" ELSE "ok",
                          !.files = Append(logs.files, log),
                          !.books = BooksReturned(Append(logs.files, log))]
    /\ UNCHANGED <<prev, hist, clock, readsVars, dir, ckpt, tmpfile, pc, todo, last_seq, run>>

AggregateNext ==
    \/ ReadAggregateLine
    \/ FinishFile
    \/ KeepFile
    \/ EvaluateBooks

SpecAggregate == PowerInit /\ [][AggregateNext]_vars

\* The step evaluates the books aggregate.
EvaluateStep == out'.n = out.n + 1

\* C39: Aggregation has no side effects.  An evaluation of the books
\* aggregate leaves the books and events of every file as they were, and an
\* evaluation on the files the evaluation before it saw returns the same
\* events and the same sessions for every book.
C39_AggregateIsPure ==
    [][EvaluateStep =>
        /\ logs'.files = logs.files
        /\ log' = log
        /\ (out.n > 0 /\ Len(out.files) = Len(logs.files) + 1) =>
               out'.books = out.books]_vars

(***************************************************************************)
(* The shape of the derived sessions.                                      *)
(***************************************************************************)
\* Every session has a start, only the last may lack an end, no session ends
\* before it starts, and the sessions are in the order of their starts.
WellFormed(rv) ==
    /\ \A i \in 1..Len(rv) :
           /\ rv[i][1] # None
           /\ rv[i][3] = None => i = Len(rv)
           /\ rv[i][3] # None => rv[i][1] <= rv[i][3]
    /\ \A i \in 2..Len(rv) : rv[i - 1][1] <= rv[i][1]

\* C40: Well-formed sessions.  For every list of events the book tracker can
\* produce for a book, the derived list of sessions is well formed.
C40_SessionsWellFormed ==
    \A a \in DOMAIN log.books :
        ~ReadsRaises(log.books[a].events) => WellFormed(Reads(log.books[a].events))
====
